---------------------------- MODULE Spec2Model ----------------------------
(***************************************************************************)
(* Quiz lifecycle and attempt scoring of the shekhai-server backend.       *)
(*                                                                         *)
(* The document store holds two collections: quizzes (Quiz documents with  *)
(* embedded questions) and attempts (QuizAttempt documents with embedded   *)
(* answers).  Every HTTP handler is an async function; it is modelled as a *)
(* request that advances from one `await` to the next, so that requests    *)
(* can overlap exactly where the code yields to the event loop.  The       *)
(* sequential specifications admit a new request only when no other one is *)
(* in flight.                                                              *)
(*                                                                         *)
(* The controllers in src/src/controllers use the Quiz fields declared by  *)
(* the schema of src/unnamed/part_007 (isPublished, availableFrom,         *)
(* questions[].correctAnswer of type Mixed, ...); the derived counters     *)
(* totalQuestions / totalPoints and their pre('save') hook are declared by *)
(* src/src/models/Quiz.js.  The model gives a quiz the fields of both.     *)
(*                                                                         *)
(* Numbers: percentages are exact rationals <<num, den>> (the code uses    *)
(* IEEE doubles); timestamps of attempts are not modelled.                 *)
(***************************************************************************)
EXTENDS Integers, Sequences, FiniteSets, TLC

VARIABLES
    quizzes,    \* the Quiz collection: quiz id -> document (a partial function)
    attempts,   \* the QuizAttempt collection, in insertion order; _id = index
    reqs,       \* the HTTP requests in flight: slot -> handler position and locals
    log,        \* the last response sent (empty before the first one)
    now,        \* the wall clock read by `new Date()`
    nextQid,    \* the number of question _ids handed out so far
    webinars,   \* the Webinar collection: webinar id -> document
    registrations \* the Registration collection, in insertion order; _id = index

vars == <<quizzes, attempts, reqs, log, now, nextQid, webinars, registrations>>

-----------------------------------------------------------------------------
(* Bounds of the model *)

NumUsers == 1
NumSlots == 2
MaxMaxAttempts == 2
MaxStrLen == 2
MaxOptions == 2
MaxSelected == 3
MaxAnswers == 2
MaxTime == 3
MaxQid == 2

Users == 1..NumUsers
Slots == 1..NumSlots
QuizIds == {1}
CourseIds == {1}

-----------------------------------------------------------------------------
(* Generic helpers *)

RECURSIVE SumSeq(_)
SumSeq(s) == IF s = <<>> THEN 0 ELSE Head(s) + SumSeq(Tail(s))

RECURSIVE FilterSeq(_, _)
\* the subsequence of s at the positions in keep, in order
FilterSeq(s, keep) ==
    IF s = <<>> THEN <<>>
    ELSE LET rest == FilterSeq(Tail(s), {i - 1 : i \in keep \ {1}})
         IN IF 1 \in keep THEN <<Head(s)>> \o rest ELSE rest

SeqsUpTo(S, n) == UNION {[1..k -> S] : k \in 0..n}

Range(s) == {s[i] : i \in DOMAIN s}

-----------------------------------------------------------------------------
(* JavaScript values.  A Mixed field (Question.correctAnswer) or an optional *)
(* request field holds a string, a boolean or nothing; a string is a         *)
(* sequence of characters.                                                   *)

Chars == {"P", "p", " "}
Strings == SeqsUpTo(Chars, MaxStrLen)

Str(s) == [kind |-> "string", str |-> s, bool |-> FALSE]
Bool(b) == [kind |-> "bool", str |-> <<>>, bool |-> b]
Undefined == [kind |-> "undefined", str |-> <<>>, bool |-> FALSE]

\* `!v` is false: undefined, "" and false are falsy
Truthy(v) ==
    CASE v.kind = "string" -> v.str # <<>>
      [] v.kind = "bool" -> v.bool
      [] OTHER -> FALSE

LowerChar(c) == IF c = "P" THEN "p" ELSE c

\* String.prototype.toLowerCase
toLowerCase(s) == [i \in DOMAIN s |-> LowerChar(s[i])]

RECURSIVE TrimStart(_)
TrimStart(s) == IF s # <<>> /\ Head(s) = " " THEN TrimStart(Tail(s)) ELSE s

RECURSIVE TrimEnd(_)
TrimEnd(s) ==
    IF s # <<>> /\ s[Len(s)] = " " THEN TrimEnd(SubSeq(s, 1, Len(s) - 1)) ELSE s

\* String.prototype.trim
trim(s) == TrimEnd(TrimStart(s))

\* an absent Date (availableUntil of a quiz that never expires)
Null == 0 - 1

\* a percentage, as the exact rational num / den
Pct(n, d) == [num |-> n, den |-> d]

\* p >= n for a percentage p and an integer n
PctGeq(p, n) == p.num >= n * p.den

\* Math.round of a non-negative rational: floor(x + 1/2)
MathRound(n, d) == (2 * n + d) \div (2 * d)

-----------------------------------------------------------------------------
(* Documents *)

Option(text, isCorrect) == [text |-> text, isCorrect |-> isCorrect]

\* a question; its text (the field `question`) is "P" unless changed
Question(id, type, options, correctAnswer, points) ==
    [id |-> id, question |-> Str(<<"P">>), type |-> type, options |-> options,
     correctAnswer |-> correctAnswer, points |-> points]

\* an entry of req.body.answers
Answer(questionId, selectedOptions, shortAnswer) ==
    [questionId |-> questionId, selectedOptions |-> selectedOptions,
     shortAnswer |-> shortAnswer]

\* the sum of the questions' point values
QuestionPoints(questions) ==
    SumSeq([i \in DOMAIN questions |-> questions[i].points])

\* quizSchema.pre('save'): the derived counters are recomputed on every save
QuizPreSave(quiz) ==
    [quiz EXCEPT !.totalQuestions = Len(quiz.questions),
                 !.totalPoints = QuestionPoints(quiz.questions)]

\* the new attempt numbered from zero
NewAttemptFromZero(quizId, userId, attemptNumber) ==
    [quizId |-> quizId, userId |-> userId, attemptNumber |-> attemptNumber - 1,
     status |-> "in-progress", answers |-> <<>>, score |-> 0, totalPoints |-> 0,
     percentage |-> Pct(0, 1), isPassed |-> FALSE, version |-> 0]

\* the defaults a new QuizAttempt gets from its schema; version is the
\* document's __v
NewAttempt(quizId, userId, attemptNumber) ==
    [quizId |-> quizId, userId |-> userId, attemptNumber |-> attemptNumber,
     status |-> "in-progress", answers |-> <<>>, score |-> 0, totalPoints |-> 0,
     percentage |-> Pct(0, 1), isPassed |-> FALSE, version |-> 0]

-----------------------------------------------------------------------------
(* The scoring of a submission (submitQuizAttempt, the loop over answers) *)

\* quiz.questions.id(questionId): the positions of the questions with that _id
QuestionIndex(questions, questionId) ==
    {i \in DOMAIN questions : questions[i].id = questionId}

HasQuestion(questions, questionId) == QuestionIndex(questions, questionId) # {}

FindQuestion(questions, questionId) ==
    LET idx == QuestionIndex(questions, questionId)
    IN questions[CHOOSE i \in idx : \A j \in idx : i <= j]

IsChoice(type) == type \in {"multiple-choice", "single-choice"}
IsText(type) == type \in {"true-false", "short-answer"}

\* question.options.filter(opt => opt.isCorrect).map(opt => opt.text)
CorrectOptions(question) ==
    LET keep == {i \in DOMAIN question.options : question.options[i].isCorrect}
        kept == FilterSeq(question.options, keep)
    IN [i \in DOMAIN kept |-> kept[i].text]

\* selectedOptions.length === correctOptions.length &&
\*   selectedOptions.every(opt => correctOptions.includes(opt))
ChoiceMatch(selectedOptions, correctOptions) ==
    /\ Len(selectedOptions) = Len(correctOptions)
    /\ \A i \in DOMAIN selectedOptions :
          selectedOptions[i] \in Range(correctOptions)

\* question.correctAnswer.toLowerCase() is a TypeError unless it is a string
TextThrows(question) == question.correctAnswer.kind # "string"

\* answer.shortAnswer?.toLowerCase().trim() ===
\*   question.correctAnswer.toLowerCase().trim()
TextMatch(shortAnswer, correctAnswer) ==
    /\ shortAnswer.kind = "string"
    /\ trim(toLowerCase(shortAnswer.str)) = trim(toLowerCase(correctAnswer.str))

\* isCorrect of one answer whose question exists and does not throw
IsCorrect(question, answer) ==
    IF IsChoice(question.type)
    THEN ChoiceMatch(answer.selectedOptions, CorrectOptions(question))
    ELSE IF IsText(question.type)
    THEN TextMatch(answer.shortAnswer, question.correctAnswer)
    ELSE FALSE

\* the element pushed on processedAnswers
ProcessAnswer(question, answer) ==
    LET correct == IsCorrect(question, answer)
    IN [questionId |-> answer.questionId,
        selectedOptions |-> answer.selectedOptions,
        shortAnswer |-> answer.shortAnswer,
        isCorrect |-> correct,
        pointsEarned |-> IF correct THEN question.points ELSE 0]

\* the answers the loop does not skip (`if (!question) continue`)
MatchedAnswers(questions, answers) ==
    FilterSeq(answers, {i \in DOMAIN answers : HasQuestion(questions, answers[i].questionId)})

\* the loop throws at the first text answer whose correctAnswer is no string
ProcessThrows(questions, answers) ==
    \E i \in DOMAIN answers :
        /\ HasQuestion(questions, answers[i].questionId)
        /\ LET q == FindQuestion(questions, answers[i].questionId)
           IN IsText(q.type) /\ TextThrows(q)

ProcessAnswers(questions, answers) ==
    LET matched == MatchedAnswers(questions, answers)
    IN [i \in DOMAIN matched |->
           ProcessAnswer(FindQuestion(questions, matched[i].questionId), matched[i])]

\* totalScore: the sum of pointsEarned over the processed answers
TotalScore(processed) ==
    SumSeq([i \in DOMAIN processed |-> processed[i].pointsEarned])

\* attempt.percentage = totalPoints > 0 ? (totalScore / totalPoints) * 100 : 0
Percentage(totalScore, totalPoints) ==
    IF totalPoints > 0 THEN Pct(totalScore * 100, totalPoints) ELSE Pct(0, 1)

\* the in-memory attempt after the assignments of submitQuizAttempt
ScoredAttempt(attempt, quiz, answers) ==
    LET processed == ProcessAnswers(quiz.questions, answers)
        totalScore == TotalScore(processed)
        totalPoints == QuestionPoints(quiz.questions)
        percentage == Percentage(totalScore, totalPoints)
    IN [attempt EXCEPT !.answers = processed,
                       !.status = "completed",
                       !.score = totalScore,
                       !.percentage = percentage,
                       !.isPassed = PctGeq(percentage, quiz.passingScore)]

\* quizAttemptSchema.pre("save"): totalPoints and percentage are recomputed
\* from the answers alone
AttemptPreSave(attempt) ==
    IF Len(attempt.answers) > 0
    THEN LET answers == attempt.answers
             earned == TotalScore(answers)
             \* this.answers.find(a => a.questionId.equals(answer.questionId))
             first(i) == CHOOSE j \in DOMAIN answers :
                            /\ answers[j].questionId = answers[i].questionId
                            /\ \A k \in DOMAIN answers :
                                  answers[k].questionId = answers[i].questionId => j <= k
             totalPossiblePoints ==
                 SumSeq([i \in DOMAIN answers |-> answers[first(i)].pointsEarned])
         IN [attempt EXCEPT
                !.totalPoints = earned,
                !.percentage =
                    IF totalPossiblePoints > 0
                    THEN Pct(MathRound(earned * 100, totalPossiblePoints), 1)
                    ELSE @]
    ELSE attempt

-----------------------------------------------------------------------------
(* Requests.  A slot holds one handler invocation: its position (pc) and   *)
(* the locals that live across its awaits.                                 *)

Idle ==
    [op |-> "idle", pc |-> "idle", quizId |-> 0, userId |-> 0,
     answers |-> <<>>, quiz |-> <<>>, previousAttempts |-> 0,
     attemptId |-> 0, attempt |-> <<>>, body |-> <<>>, found |-> <<>>,
     time |-> 0, webinarId |-> 0, webinar |-> <<>>, registration |-> <<>>]

\* a response: the status code and, of the JSON body, the id of the returned
\* attempt (start, submit), the returned list (getQuizzes) or the rejected
\* fields (updateQuiz)
Response(op, quizId, userId, status, attemptId, data) ==
    [op |-> op, quizId |-> quizId, userId |-> userId, status |-> status,
     attemptId |-> attemptId, data |-> data]

\* the log keeps the most recent response
Logged(l, resp) == <<resp>>

\* res.status(status).json(...): the handler ends and its slot is free again
RespondData(r, status, attemptId, data) ==
    /\ log' = Logged(log, Response(reqs[r].op, reqs[r].quizId, reqs[r].userId,
                                   status, attemptId, data))
    /\ reqs' = [reqs EXCEPT ![r] = Idle]

Respond(r, status, attemptId) == RespondData(r, status, attemptId, {})

\* no other request is in flight
Alone(r) == \A s \in Slots \ {r} : reqs[s].pc = "idle"

\* QuizAttempt.find({quizId, userId})
AttemptsOf(quizId, userId) ==
    {i \in DOMAIN attempts :
        attempts[i].quizId = quizId /\ attempts[i].userId = userId}

\* the query without its status filter
AnyStatusOf(quizId, userId) == AttemptsOf(quizId, userId)

\* QuizAttempt.find({quizId, userId, status: "in-progress"})
InProgressOf(quizId, userId) ==
    {i \in AttemptsOf(quizId, userId) : attempts[i].status = "in-progress"}

\* findOne returns the first match in insertion order
FirstOf(ids) == CHOOSE i \in ids : \A j \in ids : i <= j

\* QuizAttempt.countDocuments({quizId})
AttemptCount(quizId) ==
    Cardinality({i \in DOMAIN attempts : attempts[i].quizId = quizId})

-----------------------------------------------------------------------------
(* startQuizAttempt *)

BeginStart(r, quizId, userId) ==
    /\ reqs[r].pc = "idle"
    /\ reqs' = [reqs EXCEPT ![r] =
           [Idle EXCEPT !.op = "start", !.pc = "findQuiz",
                        !.quizId = quizId, !.userId = userId]]
    /\ UNCHANGED <<quizzes, attempts, log, now, nextQid, webinars, registrations>>

\* quiz.isActive && quiz.isPublished, the availability test of line 22
QuizAvailable(quiz) == quiz.isActive /\ quiz.isPublished

\* const quiz = await Quiz.findById(quizId), and the checks on it
StartFindQuiz(r) ==
    /\ reqs[r].op = "start" /\ reqs[r].pc = "findQuiz"
    /\ IF reqs[r].quizId \notin DOMAIN quizzes
       THEN Respond(r, 404, 0)
       ELSE IF ~QuizAvailable(quizzes[reqs[r].quizId])
       THEN Respond(r, 400, 0)
       ELSE /\ reqs' = [reqs EXCEPT ![r].pc = "findPrevious",
                                    ![r].quiz = <<quizzes[reqs[r].quizId]>>]
            /\ UNCHANGED log
    /\ UNCHANGED <<quizzes, attempts, now, nextQid, webinars, registrations>>

\* the limit test with > in place of >=
LimitReachedStrict(previousAttempts, maxAttempts) == previousAttempts > maxAttempts

\* previousAttempts.length >= quiz.maxAttempts
LimitReached(previousAttempts, maxAttempts) == previousAttempts >= maxAttempts

\* const previousAttempts = await QuizAttempt.find({quizId, userId})
StartFindPrevious(r) ==
    /\ reqs[r].op = "start" /\ reqs[r].pc = "findPrevious"
    /\ LET previousAttempts ==
               Cardinality(AttemptsOf(reqs[r].quizId, reqs[r].userId))
       IN IF LimitReached(previousAttempts, reqs[r].quiz[1].maxAttempts)
          THEN Respond(r, 400, 0)
          ELSE /\ reqs' = [reqs EXCEPT ![r].pc = "findInProgress",
                                       ![r].previousAttempts = previousAttempts]
               /\ UNCHANGED log
    /\ UNCHANGED <<quizzes, attempts, now, nextQid, webinars, registrations>>

\* the handler without its look for an attempt to resume
StartWithoutResume(r) ==
    /\ reqs[r].op = "start" /\ reqs[r].pc = "findInProgress"
    /\ reqs' = [reqs EXCEPT ![r].pc = "create"]
    /\ UNCHANGED <<quizzes, attempts, log, now, nextQid, webinars, registrations>>

\* const inProgressAttempt = await QuizAttempt.findOne({..., "in-progress"})
StartFindInProgress(r) ==
    /\ reqs[r].op = "start" /\ reqs[r].pc = "findInProgress"
    /\ LET found == InProgressOf(reqs[r].quizId, reqs[r].userId)
       IN IF found # {}
          THEN Respond(r, 200, FirstOf(found))
          ELSE /\ reqs' = [reqs EXCEPT ![r].pc = "create"]
               /\ UNCHANGED log
    /\ UNCHANGED <<quizzes, attempts, now, nextQid, webinars, registrations>>

\* const attempt = await QuizAttempt.create({...}); res.status(201)
StartCreate(r) ==
    /\ reqs[r].op = "start" /\ reqs[r].pc = "create"
    /\ attempts' = Append(attempts,
           NewAttempt(reqs[r].quizId, reqs[r].userId, reqs[r].previousAttempts + 1))
    /\ Respond(r, 201, Len(attempts) + 1)
    /\ UNCHANGED <<quizzes, now, nextQid, webinars, registrations>>

-----------------------------------------------------------------------------
(* submitQuizAttempt *)

BeginSubmit(r, quizId, userId, answers) ==
    /\ reqs[r].pc = "idle"
    /\ reqs' = [reqs EXCEPT ![r] =
           [Idle EXCEPT !.op = "submit", !.pc = "findAttempt",
                        !.quizId = quizId, !.userId = userId,
                        !.answers = answers]]
    /\ UNCHANGED <<quizzes, attempts, log, now, nextQid, webinars, registrations>>

\* const attempt = await QuizAttempt.findOne({..., status: "in-progress"})
SubmitFindAttempt(r) ==
    /\ reqs[r].op = "submit" /\ reqs[r].pc = "findAttempt"
    /\ LET found == InProgressOf(reqs[r].quizId, reqs[r].userId)
       IN IF found = {}
          THEN Respond(r, 404, 0)
          ELSE /\ reqs' = [reqs EXCEPT ![r].pc = "findQuiz",
                                       ![r].attemptId = FirstOf(found),
                                       ![r].attempt = <<attempts[FirstOf(found)]>>,
                                       ![r].found = <<attempts[FirstOf(found)]>>]
               /\ UNCHANGED log
    /\ UNCHANGED <<quizzes, attempts, now, nextQid, webinars, registrations>>

\* const quiz = await Quiz.findById(quizId); the answers are scored and the
\* in-memory attempt is updated, up to the call of attempt.save()
SubmitFindQuiz(r) ==
    /\ reqs[r].op = "submit" /\ reqs[r].pc = "findQuiz"
    /\ IF reqs[r].quizId \notin DOMAIN quizzes
       THEN Respond(r, 404, 0)
       ELSE LET quiz == quizzes[reqs[r].quizId]
            IN IF ProcessThrows(quiz.questions, reqs[r].answers)
               THEN Respond(r, 500, 0)
               ELSE /\ reqs' = [reqs EXCEPT
                          ![r].pc = "save",
                          ![r].attempt =
                              <<ScoredAttempt(reqs[r].attempt[1], quiz, reqs[r].answers)>>]
                    /\ UNCHANGED log
    /\ UNCHANGED <<quizzes, attempts, now, nextQid, webinars, registrations>>

\* a path of the document is modified when its new value differs from the
\* loaded one
Modified(loaded, saved, f) ==
    IF f = "percentage"
    THEN saved[f].num * loaded[f].den # loaded[f].num * saved[f].den
    ELSE saved[f] # loaded[f]

\* the update carries the loaded __v in its condition and increments it when
\* it sets an array: here, when the answers are modified
VersionChecked(loaded, saved) == Modified(loaded, saved, "answers")

\* the stored document after the update: the modified paths are set
Written(stored, loaded, saved) ==
    [f \in DOMAIN stored |->
        IF f = "version"
        THEN IF VersionChecked(loaded, saved) THEN stored.version + 1 ELSE stored.version
        ELSE IF Modified(loaded, saved, f) THEN saved[f] ELSE stored[f]]

\* await attempt.save(): the pre-save hook runs and the modified paths are
\* written to the document with this _id (and this __v, when an array is set);
\* the handler answers 200 with the saved attempt, or 500 on a VersionError
SubmitSave(r) ==
    /\ reqs[r].op = "submit" /\ reqs[r].pc = "save"
    /\ LET id == reqs[r].attemptId
           loaded == reqs[r].found[1]
           saved == AttemptPreSave(reqs[r].attempt[1])
       IN IF VersionChecked(loaded, saved) /\ attempts[id].version # loaded.version
          THEN \* VersionError: no document matches the _id and the __v
               /\ Respond(r, 500, 0)
               /\ UNCHANGED attempts
          ELSE /\ attempts' = [attempts EXCEPT ![id] = Written(@, loaded, saved)]
               /\ Respond(r, 200, id)
    /\ UNCHANGED <<quizzes, now, nextQid, webinars, registrations>>

-----------------------------------------------------------------------------
(* deleteQuiz *)

BeginDelete(r, quizId) ==
    /\ reqs[r].pc = "idle"
    /\ reqs' = [reqs EXCEPT ![r] =
           [Idle EXCEPT !.op = "delete", !.pc = "findQuiz", !.quizId = quizId]]
    /\ UNCHANGED <<quizzes, attempts, log, now, nextQid, webinars, registrations>>

\* const quiz = await Quiz.findById(id)
DeleteFindQuiz(r) ==
    /\ reqs[r].op = "delete" /\ reqs[r].pc = "findQuiz"
    /\ IF reqs[r].quizId \notin DOMAIN quizzes
       THEN Respond(r, 404, 0)
       ELSE /\ reqs' = [reqs EXCEPT ![r].pc = "countAttempts"]
            /\ UNCHANGED log
    /\ UNCHANGED <<quizzes, attempts, now, nextQid, webinars, registrations>>

\* the attempt test that lets a single attempt pass
HasAttemptsMoreThanOne(attemptCount) == attemptCount > 1

\* attemptCount > 0: the quiz may not be deleted
HasAttempts(attemptCount) == attemptCount > 0

\* const attemptCount = await QuizAttempt.countDocuments({quizId: id})
DeleteCountAttempts(r) ==
    /\ reqs[r].op = "delete" /\ reqs[r].pc = "countAttempts"
    /\ IF HasAttempts(AttemptCount(reqs[r].quizId))
       THEN Respond(r, 400, 0)
       ELSE /\ reqs' = [reqs EXCEPT ![r].pc = "delete"]
            /\ UNCHANGED log
    /\ UNCHANGED <<quizzes, attempts, now, nextQid, webinars, registrations>>

\* the collection without the document of that id
WithoutQuiz(qs, quizId) == [q \in DOMAIN qs \ {quizId} |-> qs[q]]

\* await Quiz.findByIdAndDelete(id); res.json(...)
DeleteRemove(r) ==
    /\ reqs[r].op = "delete" /\ reqs[r].pc = "delete"
    /\ quizzes' = WithoutQuiz(quizzes, reqs[r].quizId)
    /\ Respond(r, 200, 0)
    /\ UNCHANGED <<attempts, now, nextQid, webinars, registrations>>

-----------------------------------------------------------------------------
(* The attempt lifecycle: start, submit and delete on one stored quiz *)

Quiz(courseId, isActive, isPublished, availableFrom, availableUntil, maxAttempts, passingScore, questions) ==
    [courseId |-> courseId, isActive |-> isActive, isPublished |-> isPublished,
     availableFrom |-> availableFrom, availableUntil |-> availableUntil,
     maxAttempts |-> maxAttempts, passingScore |-> passingScore,
     questions |-> questions, totalQuestions |-> 0, totalPoints |-> 0]

\* two single-choice questions worth one point each, one option correct each
TwoChoiceQuestions ==
    << Question(1, "single-choice",
                <<Option("A", TRUE), Option("B", FALSE)>>, Str(<<"P">>), 1),
       Question(2, "single-choice",
                <<Option("A", FALSE), Option("B", TRUE)>>, Str(<<"P">>), 1) >>

\* the quizzes a lifecycle run starts from: created by createQuiz (and saved,
\* so the counters are derived), then published or deactivated or neither
LifecycleQuizzes ==
    { QuizPreSave(Quiz(1, active, published, 0, MaxTime, maxAttempts, 70,
                       TwoChoiceQuestions)) :
        active \in BOOLEAN, published \in BOOLEAN,
        maxAttempts \in 1..MaxMaxAttempts }

\* the submissions of a lifecycle run: one right and one wrong, or both right
LifecycleAnswers ==
    { <<Answer(1, <<"A">>, Undefined), Answer(2, <<"A">>, Undefined)>>,
      <<Answer(1, <<"A">>, Undefined), Answer(2, <<"B">>, Undefined)>> }

LifecycleInit ==
    /\ quizzes \in {[q \in QuizIds |-> quiz] : quiz \in LifecycleQuizzes}
    /\ attempts = <<>>
    /\ reqs = [r \in Slots |-> Idle]
    /\ log = <<>>
    /\ now = 0
    /\ nextQid = 2
    /\ webinars = <<>>
    /\ registrations = <<>>

\* one step of the handler running in slot r
Step(r) ==
    \/ StartFindQuiz(r)
    \/ StartFindPrevious(r)
    \/ StartFindInProgress(r)
    \/ StartCreate(r)
    \/ SubmitFindAttempt(r)
    \/ SubmitFindQuiz(r)
    \/ SubmitSave(r)
    \/ DeleteFindQuiz(r)
    \/ DeleteCountAttempts(r)
    \/ DeleteRemove(r)

\* a request arrives in slot r with a submission drawn from answerLists
Arrive(r, answerLists) ==
    \/ \E q \in QuizIds, u \in Users : BeginStart(r, q, u)
    \/ \E q \in QuizIds, u \in Users, answers \in answerLists :
          BeginSubmit(r, q, u, answers)
    \/ \E q \in QuizIds : BeginDelete(r, q)

\* the server takes a new request into the first free slot
FirstFree(r) == reqs[r].pc = "idle" /\ \A s \in Slots : reqs[s].pc = "idle" => r <= s

\* the submissions of overlapping requests: one right, or one right and one wrong
OverlapAnswers ==
    { <<Answer(1, <<"A">>, Undefined)>>,
      <<Answer(1, <<"A">>, Undefined), Answer(2, <<"A">>, Undefined)>> }

\* requests overlap freely: every await is a point where another handler runs
Next == \E r \in Slots : (FirstFree(r) /\ Arrive(r, OverlapAnswers)) \/ Step(r)

Spec == LifecycleInit /\ [][Next]_vars

\* requests arrive one at a time: a handler runs to its response before the
\* next request is admitted
SeqNext == \E r \in Slots : (FirstFree(r) /\ Alone(r) /\ Arrive(r, LifecycleAnswers)) \/ Step(r)

SeqSpec == LifecycleInit /\ [][SeqNext]_vars

-----------------------------------------------------------------------------
(* Claims about the attempt lifecycle *)

Succeeded(resp) == resp.status \in {200, 201}

\* the request in slot r sends its response in this step
Completes(r, op) == reqs[r].op = op /\ reqs'[r].pc = "idle"

LastResponse == log[Len(log)]

\* C1: when startQuizAttempt is called twice in succession for the same quiz
\* and user, with no other request in between, and the first call returned an
\* attempt, the second call succeeds, returns the same attempt id and creates
\* no attempt.
C1_StartIdempotent ==
    [][\A r \in Slots :
          (/\ Completes(r, "start")
           /\ log # <<>>
           /\ LastResponse.op = "start"
           /\ LastResponse.quizId = reqs[r].quizId
           /\ LastResponse.userId = reqs[r].userId
           /\ Succeeded(LastResponse))
          => (/\ Succeeded(LastResponse')
              /\ LastResponse'.attemptId = LastResponse.attemptId
              /\ attempts' = attempts)]_vars

\* C2: a start request that is answered while the number of attempts recorded
\* for its (user, quiz) equals quiz.maxAttempts is answered 400 and leaves the
\* attempts as they were.
C2_StartRejectedAtLimit ==
    [][\A r \in Slots :
          (/\ Completes(r, "start")
           /\ reqs[r].quizId \in DOMAIN quizzes
           /\ Cardinality(AttemptsOf(reqs[r].quizId, reqs[r].userId))
                 = quizzes[reqs[r].quizId].maxAttempts)
          => (LastResponse'.status = 400 /\ attempts' = attempts)]_vars

\* C2 witness: with maxAttempts = 1 the user has completed attempt #1 and the
\* next start was answered 400.
C2_Witness ==
    /\ log # <<>>
    /\ LastResponse.op = "start" /\ LastResponse.status = 400
    /\ LastResponse.quizId \in DOMAIN quizzes
    /\ LET quiz == quizzes[LastResponse.quizId]
           mine == AttemptsOf(LastResponse.quizId, LastResponse.userId)
       IN /\ QuizAvailable(quiz)
          /\ quiz.maxAttempts = 1
          /\ Cardinality(mine) = 1
          /\ \A i \in mine : attempts[i].status = "completed"

\* C3: each (user, quiz) pair has at most one in-progress attempt.
C3_AtMostOneInProgress ==
    \A q \in QuizIds, u \in Users : Cardinality(InProgressOf(q, u)) <= 1

\* C8: a delete request for a stored quiz removes the quiz and answers 200 when
\* no attempt references it, and answers 400 leaving quizzes and attempts as
\* they were when an attempt references it.
C8_DeleteUnlessAttempted ==
    [][\A r \in Slots :
          (Completes(r, "delete") /\ reqs[r].quizId \in DOMAIN quizzes)
          => /\ attempts' = attempts
             /\ IF AttemptCount(reqs[r].quizId) = 0
                THEN /\ LastResponse'.status = 200
                     /\ reqs[r].quizId \notin DOMAIN quizzes'
                ELSE /\ LastResponse'.status = 400
                     /\ quizzes' = quizzes]_vars

\* C8 witness: a delete was refused with 400 for a quiz that has an attempt,
\* and the quiz is still stored.
C8_Witness ==
    /\ log # <<>>
    /\ LastResponse.op = "delete" /\ LastResponse.status = 400
    /\ LastResponse.quizId \in DOMAIN quizzes
    /\ AttemptCount(LastResponse.quizId) > 0

-----------------------------------------------------------------------------
(* Scoring: submissions against published quizzes of every question shape *)

OptionTexts == {"A", "B"}
SelectableTexts == {"A", "B", "C"}

\* option lists of a choice question: texts may repeat, any options correct
OptionLists ==
    UNION {[1..k -> {Option(t, c) : t \in OptionTexts, c \in BOOLEAN}] :
             k \in 2..MaxOptions}

\* a choice question worth two points
ChoiceQuestions ==
    {Question(1, type, options, Str(<<"P">>), 2) :
        type \in {"single-choice", "multiple-choice"}, options \in OptionLists}

\* what a Mixed correctAnswer holds once the schema's `required` has passed
StoredCorrectAnswers == {Str(s) : s \in Strings} \cup {Bool(b) : b \in BOOLEAN}

\* a true-false or short-answer question worth two points
TextQuestions ==
    {Question(1, type, <<>>, correctAnswer, 2) :
        type \in {"true-false", "short-answer"},
        correctAnswer \in StoredCorrectAnswers}

ScoreQuestionLists ==
    {<<q>> : q \in ChoiceQuestions \cup TextQuestions} \cup {TwoChoiceQuestions}

\* an _id that no question of the model carries
UnknownQuestionId == MaxQid + 1

\* the answers a client may send for one question
AnswersFor(question) ==
    IF IsChoice(question.type)
    THEN {Answer(question.id, selected, Undefined) :
             selected \in SeqsUpTo(SelectableTexts, MaxSelected)}
    ELSE {Answer(question.id, <<>>, shortAnswer) :
             shortAnswer \in {Undefined} \cup {Str(s) : s \in Strings}}

\* req.body.answers: up to MaxAnswers answers, to the quiz's questions (any
\* order, repeats allowed) or to a question the quiz does not have
ScoreAnswers(quiz) ==
    SeqsUpTo(UNION {AnswersFor(quiz.questions[i]) : i \in DOMAIN quiz.questions}
               \cup {Answer(UnknownQuestionId, <<"A">>, Undefined)},
             MaxAnswers)

\* a published quiz on which user 1 has started attempt #1
ScoreInit ==
    /\ quizzes \in {[q \in QuizIds |->
                       QuizPreSave(Quiz(1, TRUE, TRUE, 0, MaxTime, 1, 70, questions))] :
                    questions \in ScoreQuestionLists}
    /\ attempts = <<NewAttempt(1, 1, 1)>>
    /\ reqs = [r \in Slots |-> Idle]
    /\ log = <<>>
    /\ now = 0
    /\ nextQid = 2
    /\ webinars = <<>>
    /\ registrations = <<>>

\* one submission arrives and is scored
ScoreNext ==
    \E r \in Slots :
        \/ /\ FirstFree(r) /\ Alone(r) /\ log = <<>>
           /\ \E q \in QuizIds, u \in Users :
                 \E answers \in ScoreAnswers(quizzes[q]) :
                    BeginSubmit(r, q, u, answers)
        \/ SubmitFindAttempt(r)
        \/ SubmitFindQuiz(r)
        \/ SubmitSave(r)

ScoreSpec == ScoreInit /\ [][ScoreNext]_vars

-----------------------------------------------------------------------------
(* Claims about scoring *)

Completed == {i \in DOMAIN attempts : attempts[i].status = "completed"}

\* the question a stored answer refers to
AnsweredQuestion(attempt, k) ==
    FindQuestion(quizzes[attempt.quizId].questions, attempt.answers[k].questionId)

\* C4: the percentage stored on a completed attempt equals
\* score / totalPossiblePoints * 100, where totalPossiblePoints is the sum of the
\* point values of all the quiz's questions, and is 0 when that sum is 0.
C4_PercentageOfAllQuestions ==
    \A i \in Completed :
        LET attempt == attempts[i]
            totalPossiblePoints == QuestionPoints(quizzes[attempt.quizId].questions)
        IN IF totalPossiblePoints = 0
           THEN attempt.percentage.num = 0
           ELSE attempt.percentage.num * totalPossiblePoints
                   = attempt.score * 100 * attempt.percentage.den

\* C5: a stored answer to a single-choice or multiple-choice question is marked
\* correct, and earns the question's points, exactly when the set of submitted
\* option texts equals the set of option texts marked isCorrect; otherwise it
\* earns zero.
C5_ChoiceCorrectIffSetsEqual ==
    \A i \in Completed :
        \A k \in DOMAIN attempts[i].answers :
            LET answer == attempts[i].answers[k]
                question == AnsweredQuestion(attempts[i], k)
                marked == {question.options[j].text :
                              j \in {j \in DOMAIN question.options :
                                        question.options[j].isCorrect}}
            IN IsChoice(question.type) =>
                  /\ answer.isCorrect <=> (Range(answer.selectedOptions) = marked)
                  /\ answer.pointsEarned = IF answer.isCorrect THEN question.points ELSE 0

\* C6: a submission to a quiz of true-false or short-answer questions is always
\* scored (never answered 500), and a stored answer to such a question is marked
\* correct, and earns the question's points, exactly when the submitted text
\* equals the stored correct answer after lower-casing and trimming both.
C6_TextCorrectIffNormalizedEqual ==
    /\ \A n \in DOMAIN log : log[n].op = "submit" => log[n].status # 500
    /\ \A i \in Completed :
          \A k \in DOMAIN attempts[i].answers :
              LET answer == attempts[i].answers[k]
                  question == AnsweredQuestion(attempts[i], k)
              IN IsText(question.type) =>
                    /\ answer.isCorrect <=>
                          /\ answer.shortAnswer.kind = "string"
                          /\ question.correctAnswer.kind = "string"
                          /\ trim(toLowerCase(answer.shortAnswer.str))
                                = trim(toLowerCase(question.correctAnswer.str))
                    /\ answer.pointsEarned =
                          IF answer.isCorrect THEN question.points ELSE 0

-----------------------------------------------------------------------------
(* getQuizzes and the derived status *)

\* getQuizStatus(quiz), evaluated at time t, with the first two tests swapped
getQuizStatusDraftFirst(quiz, t) ==
    IF ~quiz.isPublished THEN "draft"
    ELSE IF ~quiz.isActive THEN "disabled"
    ELSE IF t < quiz.availableFrom THEN "scheduled"
    ELSE IF quiz.availableUntil # Null /\ t > quiz.availableUntil THEN "expired"
    ELSE "active"

\* getQuizStatus(quiz), evaluated at time t (`const now = new Date()`)
getQuizStatus(quiz, t) ==
    IF ~quiz.isActive THEN "disabled"
    ELSE IF ~quiz.isPublished THEN "draft"
    ELSE IF t < quiz.availableFrom THEN "scheduled"
    ELSE IF quiz.availableUntil # Null /\ t > quiz.availableUntil THEN "expired"
    ELSE "active"

\* a query-string flag: absent, "true" or "false"
QueryFlags == {"undefined", "true", "false"}

\* the status values a client filters by, "" for no status filter
QueryStatuses == {"", "active", "scheduled", "expired", "draft"}

\* req.query of getQuizzes (the other parameters are left out by the client)
Queries ==
    [isActive : QueryFlags, isPublished : QueryFlags, status : QueryStatuses]

\* whether a stored quiz matches the filter built from the query at time t
MatchesFilter(quiz, query, t) ==
    LET st == query.status
        \* filter.isActive: set from the query, overwritten by a status filter
        activeSet == query.isActive # "undefined" \/ st \in {"active", "scheduled", "expired"}
        activeVal == IF st \in {"active", "scheduled", "expired"} THEN TRUE
                     ELSE query.isActive = "true"
        publishedSet == query.isPublished # "undefined" \/ st # ""
        publishedVal == IF st \in {"active", "scheduled", "expired"} THEN TRUE
                        ELSE IF st = "draft" THEN FALSE
                        ELSE query.isPublished = "true"
    IN /\ activeSet => quiz.isActive = activeVal
       /\ publishedSet => quiz.isPublished = publishedVal
       /\ st = "active" =>
             /\ quiz.availableFrom <= t
             /\ quiz.availableUntil = Null \/ quiz.availableUntil >= t
       /\ st = "scheduled" => quiz.availableFrom > t
       /\ st = "expired" => quiz.availableUntil # Null /\ quiz.availableUntil < t

BeginGetQuizzes(r, query) ==
    /\ reqs[r].pc = "idle"
    /\ reqs' = [reqs EXCEPT ![r] =
           [Idle EXCEPT !.op = "getQuizzes", !.pc = "find",
                        !.body = <<query>>, !.time = now]]
    /\ UNCHANGED <<quizzes, attempts, log, now, nextQid, webinars, registrations>>

\* const quizzes = await Quiz.find(filter)...lean()
GetQuizzesFind(r) ==
    /\ reqs[r].op = "getQuizzes" /\ reqs[r].pc = "find"
    /\ LET ids == {q \in DOMAIN quizzes :
                      MatchesFilter(quizzes[q], reqs[r].body[1], reqs[r].time)}
       IN reqs' = [reqs EXCEPT ![r].pc = "count",
                               ![r].found = {[id |-> q, quiz |-> quizzes[q]] : q \in ids}]
    /\ UNCHANGED <<quizzes, attempts, log, now, nextQid, webinars, registrations>>

\* quizzes.map(quiz => ({...quiz, status: getQuizStatus(quiz)}))
WithVirtuals(found, t) ==
    {[id |-> f.id, quiz |-> f.quiz, status |-> getQuizStatus(f.quiz, t)] : f \in found}

\* const total = await Quiz.countDocuments(filter); the virtual fields are
\* added and the list is returned
GetQuizzesCount(r) ==
    /\ reqs[r].op = "getQuizzes" /\ reqs[r].pc = "count"
    /\ RespondData(r, 200, 0, WithVirtuals(reqs[r].found, now))
    /\ UNCHANGED <<quizzes, attempts, now, nextQid, webinars, registrations>>

\* time passes
Tick ==
    /\ now < MaxTime
    /\ now' = now + 1
    /\ UNCHANGED <<quizzes, attempts, reqs, log, nextQid, webinars, registrations>>

\* the start and end dates a stored quiz can have
StoredDates ==
    {d \in (0..MaxTime) \X ({Null} \cup (0..MaxTime)) : d[2] = Null \/ d[1] < d[2]}

StatusInit ==
    /\ quizzes \in {[q \in QuizIds |->
                       QuizPreSave(Quiz(1, active, published, d[1], d[2], 1, 70,
                                        TwoChoiceQuestions))] :
                    active \in BOOLEAN, published \in BOOLEAN, d \in StoredDates}
    /\ attempts = <<>>
    /\ reqs = [r \in Slots |-> Idle]
    /\ log = <<>>
    /\ now = 0
    /\ nextQid = 2
    /\ webinars = <<>>
    /\ registrations = <<>>

\* the last list request's answer is kept; requests may overlap the clock
StatusNext ==
    \/ Tick
    \/ \E r \in Slots :
          \/ FirstFree(r) /\ Alone(r) /\ \E query \in Queries : BeginGetQuizzes(r, query)
          \/ GetQuizzesFind(r)
          \/ GetQuizzesCount(r)

StatusSpec == StatusInit /\ [][StatusNext]_vars

\* C7: the status returned for a quiz is disabled if isActive is false; else
\* draft if unpublished; else scheduled if now < availableFrom; else expired if
\* availableUntil is set and now > availableUntil; else active.
C7_StatusPrecedence ==
    [][\A r \in Slots :
          Completes(r, "getQuizzes") =>
             \A item \in LastResponse'.data :
                /\ ~item.quiz.isActive => item.status = "disabled"
                /\ (item.quiz.isActive /\ ~item.quiz.isPublished) => item.status = "draft"
                /\ (item.quiz.isActive /\ item.quiz.isPublished) =>
                      IF now < item.quiz.availableFrom
                      THEN item.status = "scheduled"
                      ELSE IF item.quiz.availableUntil # Null
                              /\ now > item.quiz.availableUntil
                      THEN item.status = "expired"
                      ELSE item.status = "active"]_vars

\* C7 witness: an inactive, unpublished quiz whose window has passed was
\* returned as disabled.
C7_Witness ==
    /\ log # <<>>
    /\ LastResponse.op = "getQuizzes"
    /\ \E item \in LastResponse.data :
          /\ ~item.quiz.isActive /\ ~item.quiz.isPublished
          /\ item.quiz.availableUntil # Null /\ now > item.quiz.availableUntil
          /\ item.status = "disabled"

-----------------------------------------------------------------------------
(* The quiz catalog: createQuiz, updateQuiz, publishQuiz, addQuestion *)

\* Maximum 30 questions allowed per quiz
QuestionLimit == 30

QuestionTypes == {"single-choice", "multiple-choice", "true-false", "short-answer"}

\* the validators of questionSchema: text (trimmed) and type required, type in the enum,
\* correctAnswer required unless multiple-choice, points at least 1
SchemaValidQuestion(q) ==
    /\ q.question.kind = "string" /\ trim(q.question.str) # <<>>
    /\ q.type \in QuestionTypes
    /\ q.type # "multiple-choice" => q.correctAnswer.kind # "undefined"
    /\ q.points >= 1

\* the validators of quizSchema on the fields of the model
SchemaValidQuiz(quiz) ==
    /\ quiz.availableFrom # Null
    /\ quiz.maxAttempts >= 1
    /\ quiz.passingScore >= 0 /\ quiz.passingScore <= 100
    /\ \A i \in DOMAIN quiz.questions : SchemaValidQuestion(quiz.questions[i])

\* casting plain question objects to subdocuments gives them fresh _ids
WithIds(questions, lastId) ==
    [i \in DOMAIN questions |-> [questions[i] EXCEPT !.id = lastId + i]]

\* an _id that no stored or in-flight document refers to
FreshQuizId(q) ==
    /\ q \notin DOMAIN quizzes
    /\ \A i \in DOMAIN attempts : attempts[i].quizId # q
    /\ \A r \in Slots : reqs[r].quizId # q

BeginCreate(r, body) ==
    /\ reqs[r].pc = "idle"
    /\ reqs' = [reqs EXCEPT ![r] =
           [Idle EXCEPT !.op = "create", !.pc = "findCourse", !.body = <<body>>]]
    /\ UNCHANGED <<quizzes, attempts, log, now, nextQid, webinars, registrations>>

\* isNaN(startDate.getTime()) || isNaN(endDate.getTime()): an absent date
InvalidDates(body) == body.availableFrom = Null \/ body.availableUntil = Null

\* endDate <= startDate
DatesInverted(startDate, endDate) == endDate <= startDate

\* questions && questions.length > 30
TooManyQuestions(questions) == Len(questions) > QuestionLimit

\* const course = await Course.findById(courseId), and the checks of the body
CreateFindCourse(r) ==
    /\ reqs[r].op = "create" /\ reqs[r].pc = "findCourse"
    /\ LET body == reqs[r].body[1]
       IN IF body.courseId \notin CourseIds
          THEN Respond(r, 404, 0)
          ELSE IF \/ InvalidDates(body)
                  \/ DatesInverted(body.availableFrom, body.availableUntil)
                  \/ TooManyQuestions(body.questions)
          THEN Respond(r, 400, 0)
          ELSE /\ reqs' = [reqs EXCEPT ![r].pc = "create"]
               /\ UNCHANGED log
    /\ UNCHANGED <<quizzes, attempts, now, nextQid, webinars, registrations>>

\* the document Quiz.create builds: `x || default` for the numbers, draft
CreatedQuiz(body, lastId) ==
    Quiz(body.courseId, TRUE, FALSE, body.availableFrom, body.availableUntil,
         IF body.maxAttempts = 0 THEN 1 ELSE body.maxAttempts,
         IF body.passingScore = 0 THEN 70 ELSE body.passingScore,
         WithIds(body.questions, lastId))

\* what document.save() stores of a new or changed quiz
SavedQuiz(quiz) == QuizPreSave(quiz)

\* const quiz = await Quiz.create({...}): validation, pre('save'), insert
CreateSave(r) ==
    /\ reqs[r].op = "create" /\ reqs[r].pc = "create"
    /\ LET quiz == CreatedQuiz(reqs[r].body[1], nextQid)
       IN IF ~SchemaValidQuiz(quiz)
          THEN /\ Respond(r, 500, 0)
               /\ UNCHANGED <<quizzes, nextQid>>
          ELSE \E q \in QuizIds :
                  /\ FreshQuizId(q)
                  /\ nextQid + Len(quiz.questions) <= MaxQid
                  /\ quizzes' = [x \in DOMAIN quizzes \cup {q} |->
                                    IF x = q THEN SavedQuiz(quiz) ELSE quizzes[x]]
                  /\ nextQid' = nextQid + Len(quiz.questions)
                  /\ log' = Logged(log, Response("create", q, 0, 201, 0, <<>>))
                  /\ reqs' = [reqs EXCEPT ![r] = Idle]
    /\ UNCHANGED <<attempts, now, webinars, registrations>>

-----------------------------------------------------------------------------
(* updateQuiz *)

BeginUpdate(r, quizId, updateData) ==
    /\ reqs[r].pc = "idle"
    /\ reqs' = [reqs EXCEPT ![r] =
           [Idle EXCEPT !.op = "update", !.pc = "findQuiz", !.quizId = quizId,
                        !.body = <<updateData>>]]
    /\ UNCHANGED <<quizzes, attempts, log, now, nextQid, webinars, registrations>>

\* the list with maxAttempts added
allowedUpdatesAndMaxAttempts ==
    {"title", "description", "instructions", "tags", "availableUntil", "isActive",
     "maxAttempts"}

allowedUpdates ==
    {"title", "description", "instructions", "tags", "availableUntil", "isActive"}

\* Object.keys(updateData).filter(key => !allowedUpdates.includes(key))
restrictedUpdates(updateData) == DOMAIN updateData \ allowedUpdates

\* a date of a JSON body: a date string, a number of milliseconds since the
\* epoch (time 0), or null; date is the Date that new Date(v) and the cast of
\* the schema make of it
DateString(t) == [json |-> "string", date |-> t]

DateNumber(t) == [json |-> "number", date |-> t]

DateNull == [json |-> "null", date |-> Null]

\* the value the schema's cast stores for a field of the patch
Cast(f, v) == IF f \in {"availableFrom", "availableUntil"} THEN v.date ELSE v

\* `updateData.key ? ... : ...`: the date of the patch is truthy; a string
\* is, the number 0 and null are not
Given(updateData, key) ==
    /\ key \in DOMAIN updateData
    /\ \/ updateData[key].json = "string"
       \/ updateData[key].json = "number" /\ updateData[key].date # 0

\* the date and question-count checks of updateQuiz fail
UpdateInvalid(quiz, updateData) ==
    \/ /\ Given(updateData, "availableFrom") \/ Given(updateData, "availableUntil")
       /\ DatesInverted(
             IF Given(updateData, "availableFrom")
                THEN updateData.availableFrom.date ELSE quiz.availableFrom,
             IF Given(updateData, "availableUntil")
                THEN updateData.availableUntil.date ELSE quiz.availableUntil)
    \/ /\ "questions" \in DOMAIN updateData
       /\ TooManyQuestions(updateData.questions)

\* the handler from the date checks on: 400, or on to findByIdAndUpdate
UpdateValidate(r, quiz) ==
    IF UpdateInvalid(quiz, reqs[r].body[1])
    THEN Respond(r, 400, 0)
    ELSE /\ reqs' = [reqs EXCEPT ![r].pc = "update", ![r].quiz = <<quiz>>]
         /\ UNCHANGED log

\* const quiz = await Quiz.findById(id)
UpdateFindQuiz(r) ==
    /\ reqs[r].op = "update" /\ reqs[r].pc = "findQuiz"
    /\ IF reqs[r].quizId \notin DOMAIN quizzes
       THEN Respond(r, 404, 0)
       ELSE LET quiz == quizzes[reqs[r].quizId]
            IN IF quiz.isPublished
               THEN /\ reqs' = [reqs EXCEPT ![r].pc = "countAttempts",
                                            ![r].quiz = <<quiz>>]
                    /\ UNCHANGED log
               ELSE UpdateValidate(r, quiz)
    /\ UNCHANGED <<quizzes, attempts, now, nextQid, webinars, registrations>>

\* const attemptCount = await QuizAttempt.countDocuments({quizId: id})
UpdateCountAttempts(r) ==
    /\ reqs[r].op = "update" /\ reqs[r].pc = "countAttempts"
    /\ IF /\ HasAttempts(AttemptCount(reqs[r].quizId))
          /\ restrictedUpdates(reqs[r].body[1]) # {}
       THEN \* restrictedFields: restrictedUpdates
            RespondData(r, 400, 0, restrictedUpdates(reqs[r].body[1]))
       ELSE UpdateValidate(r, reqs[r].quiz[1])
    /\ UNCHANGED <<quizzes, attempts, now, nextQid, webinars, registrations>>

\* the stored quiz after $set of the patch: only fields of the schema are
\* written, new questions are cast to subdocuments
Patched(quiz, updateData, lastId) ==
    [f \in DOMAIN quiz |->
        IF f \notin DOMAIN updateData THEN quiz[f]
        ELSE IF f = "questions" THEN WithIds(updateData.questions, lastId)
        ELSE Cast(f, updateData[f])]

\* what findByIdAndUpdate(id, updateData) stores: the patch, no save hooks
UpdatedQuiz(quiz, updateData, lastId) == Patched(quiz, updateData, lastId)

NewQuestionCount(updateData) ==
    IF "questions" \in DOMAIN updateData THEN Len(updateData.questions) ELSE 0

\* await Quiz.findByIdAndUpdate(id, updateData, {new: true, runValidators: true})
UpdateWrite(r) ==
    /\ reqs[r].op = "update" /\ reqs[r].pc = "update"
    /\ LET id == reqs[r].quizId
           updateData == reqs[r].body[1]
       IN IF id \notin DOMAIN quizzes
          THEN \* nothing matches: the query resolves to null, answered 200
               /\ Respond(r, 200, 0)
               /\ UNCHANGED <<quizzes, nextQid>>
          ELSE LET quiz == UpdatedQuiz(quizzes[id], updateData, nextQid)
               IN IF ~SchemaValidQuiz(quiz)
                  THEN /\ Respond(r, 500, 0)
                       /\ UNCHANGED <<quizzes, nextQid>>
                  ELSE /\ nextQid + NewQuestionCount(updateData) <= MaxQid
                       /\ quizzes' = [quizzes EXCEPT ![id] = quiz]
                       /\ nextQid' = nextQid + NewQuestionCount(updateData)
                       /\ Respond(r, 200, 0)
    /\ UNCHANGED <<attempts, now, webinars, registrations>>

-----------------------------------------------------------------------------
(* publishQuiz *)

BeginPublish(r, quizId) ==
    /\ reqs[r].pc = "idle"
    /\ reqs' = [reqs EXCEPT ![r] =
           [Idle EXCEPT !.op = "publish", !.pc = "findQuiz", !.quizId = quizId]]
    /\ UNCHANGED <<quizzes, attempts, log, now, nextQid, webinars, registrations>>

\* q.correctAnswer.trim() is a TypeError when a truthy correctAnswer is no string
TrimThrows(q) ==
    q.type = "short-answer" /\ Truthy(q.correctAnswer) /\ q.correctAnswer.kind # "string"

\* the filter of publishQuiz (and the switch of addQuestion): the question is
\* incomplete for its type
Incomplete(q) ==
    IF IsChoice(q.type) THEN Len(q.options) < 2 \/ ~Truthy(q.correctAnswer)
    ELSE IF q.type = "true-false" THEN q.correctAnswer.kind = "undefined"
    ELSE IF q.type = "short-answer"
    THEN \/ ~Truthy(q.correctAnswer)
         \/ q.correctAnswer.kind = "string" /\ trim(q.correctAnswer.str) = <<>>
    ELSE FALSE

\* the quiz may not be published: it has no questions or an incomplete one
PublishRejected(quiz) ==
    \/ Len(quiz.questions) = 0
    \/ \E i \in DOMAIN quiz.questions : Incomplete(quiz.questions[i])

\* the filter throws at a question whose trim() fails
PublishThrows(quiz) ==
    /\ Len(quiz.questions) > 0
    /\ \E i \in DOMAIN quiz.questions : TrimThrows(quiz.questions[i])

\* const quiz = await Quiz.findById(id), the checks, quiz.isPublished = true
PublishFindQuiz(r) ==
    /\ reqs[r].op = "publish" /\ reqs[r].pc = "findQuiz"
    /\ IF reqs[r].quizId \notin DOMAIN quizzes
       THEN Respond(r, 404, 0)
       ELSE LET quiz == quizzes[reqs[r].quizId]
            IN IF PublishThrows(quiz)
               THEN Respond(r, 500, 0)
               ELSE IF PublishRejected(quiz)
               THEN Respond(r, 400, 0)
               ELSE /\ reqs' = [reqs EXCEPT
                          ![r].pc = "save",
                          ![r].quiz = <<[quiz EXCEPT !.isPublished = TRUE]>>]
                    /\ UNCHANGED log
    /\ UNCHANGED <<quizzes, attempts, now, nextQid, webinars, registrations>>

\* await quiz.save(): the hook runs on the in-memory document and its changed
\* paths are written; saving a document that is gone is an error
PublishSave(r) ==
    /\ reqs[r].op = "publish" /\ reqs[r].pc = "save"
    /\ LET id == reqs[r].quizId
           saved == SavedQuiz(reqs[r].quiz[1])
       IN IF id \notin DOMAIN quizzes
          THEN /\ Respond(r, 500, 0)
               /\ UNCHANGED quizzes
          ELSE /\ quizzes' = [quizzes EXCEPT
                     ![id].isPublished = TRUE,
                     ![id].totalQuestions = saved.totalQuestions,
                     ![id].totalPoints = saved.totalPoints]
               /\ reqs' = [reqs EXCEPT ![r].pc = "refetch"]
               /\ UNCHANGED log
    /\ UNCHANGED <<attempts, now, nextQid, webinars, registrations>>

\* const populatedQuiz = await Quiz.findById(id).populate(...); res.json
PublishRefetch(r) ==
    /\ reqs[r].op = "publish" /\ reqs[r].pc = "refetch"
    /\ Respond(r, 200, 0)
    /\ UNCHANGED <<quizzes, attempts, now, nextQid, webinars, registrations>>

-----------------------------------------------------------------------------
(* addQuestion *)

BeginAddQuestion(r, quizId, questionData) ==
    /\ reqs[r].pc = "idle"
    /\ reqs' = [reqs EXCEPT ![r] =
           [Idle EXCEPT !.op = "addQuestion", !.pc = "findQuiz",
                        !.quizId = quizId, !.body = <<questionData>>]]
    /\ UNCHANGED <<quizzes, attempts, log, now, nextQid, webinars, registrations>>

\* !questionData.question || questionData.question.trim() === ""
QuestionTextMissing(questionData) ==
    ~Truthy(questionData.question) \/ trim(questionData.question.str) = <<>>

\* the three checks of the body: the text, the type, the switch on the type
QuestionDataRejected(questionData) ==
    \/ QuestionTextMissing(questionData)
    \/ questionData.type \notin QuestionTypes
    \/ Incomplete(questionData)

\* quiz.questions.length > 30
OverQuestionLimit(questions) == Len(questions) > QuestionLimit

\* quiz.questions.length >= 30
AtQuestionLimit(questions) == Len(questions) >= QuestionLimit

\* the handler from the validation of the body on: 500, 400, or the push
AddValidate(r, quiz) ==
    LET questionData == reqs[r].body[1]
    IN IF ~QuestionTextMissing(questionData) /\ TrimThrows(questionData)
       THEN Respond(r, 500, 0)
       ELSE IF QuestionDataRejected(questionData) \/ AtQuestionLimit(quiz.questions)
       THEN Respond(r, 400, 0)
       ELSE /\ reqs' = [reqs EXCEPT ![r].pc = "save", ![r].quiz = <<quiz>>]
            /\ UNCHANGED log

\* const quiz = await Quiz.findById(id)
AddFindQuiz(r) ==
    /\ reqs[r].op = "addQuestion" /\ reqs[r].pc = "findQuiz"
    /\ IF reqs[r].quizId \notin DOMAIN quizzes
       THEN Respond(r, 404, 0)
       ELSE LET quiz == quizzes[reqs[r].quizId]
            IN IF quiz.isPublished
               THEN /\ reqs' = [reqs EXCEPT ![r].pc = "countAttempts",
                                            ![r].quiz = <<quiz>>]
                    /\ UNCHANGED log
               ELSE AddValidate(r, quiz)
    /\ UNCHANGED <<quizzes, attempts, now, nextQid, webinars, registrations>>

\* const attemptCount = await QuizAttempt.countDocuments({quizId: id})
AddCountAttempts(r) ==
    /\ reqs[r].op = "addQuestion" /\ reqs[r].pc = "countAttempts"
    /\ IF HasAttempts(AttemptCount(reqs[r].quizId))
       THEN Respond(r, 400, 0)
       ELSE AddValidate(r, reqs[r].quiz[1])
    /\ UNCHANGED <<quizzes, attempts, now, nextQid, webinars, registrations>>

\* the save without validation before the write: the question is stored, and
\* an invalid one is reported afterwards
AddSaveWriteFirst(r) ==
    /\ reqs[r].op = "addQuestion" /\ reqs[r].pc = "save"
    /\ LET id == reqs[r].quizId
           question == [reqs[r].body[1] EXCEPT !.id = nextQid + 1]
       IN IF id \notin DOMAIN quizzes
          THEN /\ Respond(r, 500, 0)
               /\ UNCHANGED <<quizzes, nextQid>>
          ELSE /\ nextQid + 1 <= MaxQid
               /\ quizzes' = [quizzes EXCEPT
                     ![id].questions = Append(@, question),
                     ![id].totalQuestions = @ + 1,
                     ![id].totalPoints = @ + question.points]
               /\ nextQid' = nextQid + 1
               /\ Respond(r, IF SchemaValidQuestion(question) THEN 200 ELSE 500, 0)
    /\ UNCHANGED <<attempts, now, webinars, registrations>>

\* quiz.questions.push(questionData); await quiz.save(): the new subdocument
\* is validated, the hook runs on the in-memory document, the question is
\* pushed onto the stored array and the changed counters are written
AddSave(r) ==
    /\ reqs[r].op = "addQuestion" /\ reqs[r].pc = "save"
    /\ LET id == reqs[r].quizId
           question == [reqs[r].body[1] EXCEPT !.id = nextQid + 1]
           saved == SavedQuiz([reqs[r].quiz[1] EXCEPT
                                  !.questions = Append(@, question)])
       IN IF ~SchemaValidQuestion(question) \/ id \notin DOMAIN quizzes
          THEN /\ Respond(r, 500, 0)
               /\ UNCHANGED <<quizzes, nextQid>>
          ELSE /\ nextQid + 1 <= MaxQid
               /\ quizzes' = [quizzes EXCEPT
                     ![id].questions = Append(@, question),
                     ![id].totalQuestions = saved.totalQuestions,
                     ![id].totalPoints = saved.totalPoints]
               /\ nextQid' = nextQid + 1
               /\ Respond(r, 200, 0)
    /\ UNCHANGED <<attempts, now, webinars, registrations>>

-----------------------------------------------------------------------------
(* The catalog: one quiz is created, edited and published *)

\* the questions a client sends (the _id is assigned by the server)
WellFormedChoice ==
    Question(0, "single-choice", <<Option("A", TRUE), Option("B", FALSE)>>, Str(<<"P">>), 1)
NoOptionCorrect ==
    Question(0, "single-choice", <<Option("A", FALSE), Option("B", FALSE)>>, Str(<<"P">>), 1)
OptionsOnlyMultiple ==
    Question(0, "multiple-choice", <<Option("A", TRUE), Option("B", FALSE)>>, Undefined, 2)
OneOption ==
    Question(0, "single-choice", <<Option("A", TRUE)>>, Str(<<"P">>), 1)
BlankShortAnswer == Question(0, "short-answer", <<>>, Str(<<" ">>), 1)
ShortAnswer == Question(0, "short-answer", <<>>, Str(<<"P">>), 2)
TrueFalse == Question(0, "true-false", <<>>, Bool(TRUE), 1)

CatalogQuestions ==
    {WellFormedChoice, NoOptionCorrect, OptionsOnlyMultiple, OneOption,
     BlankShortAnswer, ShortAnswer, TrueFalse}

\* bodies of addQuestion: the questions above, one without text, one worth
\* no points, one of an unknown type
QuestionBodies ==
    CatalogQuestions \cup
    {[WellFormedChoice EXCEPT !.question = Undefined],
     [WellFormedChoice EXCEPT !.points = 0],
     [ShortAnswer EXCEPT !.type = "essay"]}

\* bodies of createQuiz; 0 stands for a number the client leaves out
CreateBodies ==
    [courseId : CourseIds \cup {2}, availableFrom : {0},
     availableUntil : {Null, 0, MaxTime}, maxAttempts : {0},
     passingScore : {0}, questions : SeqsUpTo(CatalogQuestions, 1)]

\* bodies of updateQuiz: one field each
UpdateBodies ==
    {[questions |-> qs] : qs \in SeqsUpTo(CatalogQuestions, 1)}
    \cup {[isPublished |-> FALSE], [maxAttempts |-> 0],
          [availableUntil |-> DateString(0)]}

CatalogInit ==
    /\ quizzes = <<>>
    /\ attempts = <<>>
    /\ reqs = [r \in Slots |-> Idle]
    /\ log = <<>>
    /\ now = 0
    /\ nextQid = 0
    /\ webinars = <<>>
    /\ registrations = <<>>

CatalogStep(r) ==
    \/ CreateFindCourse(r)
    \/ CreateSave(r)
    \/ UpdateFindQuiz(r)
    \/ UpdateCountAttempts(r)
    \/ UpdateWrite(r)
    \/ PublishFindQuiz(r)
    \/ PublishSave(r)
    \/ PublishRefetch(r)
    \/ AddFindQuiz(r)
    \/ AddCountAttempts(r)
    \/ AddSave(r)

CatalogArrive(r) ==
    \/ \E body \in CreateBodies : BeginCreate(r, body)
    \/ \E q \in QuizIds, updateData \in UpdateBodies : BeginUpdate(r, q, updateData)
    \/ \E q \in QuizIds : BeginPublish(r, q)
    \/ \E q \in QuizIds, questionData \in QuestionBodies :
          BeginAddQuestion(r, q, questionData)

\* catalog requests arrive one at a time
CatalogNext ==
    \E r \in Slots : (FirstFree(r) /\ Alone(r) /\ CatalogArrive(r)) \/ CatalogStep(r)

CatalogSpec == CatalogInit /\ [][CatalogNext]_vars

-----------------------------------------------------------------------------
(* Claims about the catalog *)

\* no option of the question is marked correct
NoneMarkedCorrect(q) == \A j \in DOMAIN q.options : ~q.options[j].isCorrect

\* the short-answer question has no correct answer, or a blank one
EmptyCorrectAnswer(q) ==
    q.correctAnswer.kind # "string" \/ trim(q.correctAnswer.str) = <<>>

\* a quiz that C9 says may not be published
Unpublishable(quiz) ==
    \/ Len(quiz.questions) = 0
    \/ \E i \in DOMAIN quiz.questions :
          LET q == quiz.questions[i]
          IN \/ IsChoice(q.type) /\ (Len(q.options) < 2 \/ NoneMarkedCorrect(q))
             \/ q.type = "short-answer" /\ EmptyCorrectAnswer(q)

\* C9: a publish request for a stored quiz fails and leaves the quiz as it was
\* if the quiz has no questions, or a choice-type question with fewer than 2
\* options or no option marked correct, or a short-answer question with an
\* empty correct answer; otherwise it succeeds and the quiz is published.
C9_PublishIffWellFormed ==
    [][\A r \in Slots :
          (Completes(r, "publish") /\ reqs[r].quizId \in DOMAIN quizzes)
          => IF Unpublishable(quizzes[reqs[r].quizId])
             THEN LastResponse'.status # 200 /\ quizzes' = quizzes
             ELSE LastResponse'.status = 200
                  /\ quizzes'[reqs[r].quizId].isPublished]_vars

\* C10: every stored quiz has totalQuestions equal to the number of its
\* questions and totalPoints equal to the sum of their point values.
C10_TotalsDerived ==
    \A q \in DOMAIN quizzes :
        /\ quizzes[q].totalQuestions = Len(quizzes[q].questions)
        /\ quizzes[q].totalPoints = QuestionPoints(quizzes[q].questions)

-----------------------------------------------------------------------------
(* The availability window: attempts on quizzes of every window, as time passes *)

\* the quizzes a windowed run starts from: any flags, any window, one attempt
\* allowed
WindowQuizzes ==
    { QuizPreSave(Quiz(1, active, published, d[1], d[2], 1, 70, TwoChoiceQuestions)) :
        active \in BOOLEAN, published \in BOOLEAN, d \in StoredDates }

WindowInit ==
    /\ quizzes \in {[q \in QuizIds |-> quiz] : quiz \in WindowQuizzes}
    /\ attempts = <<>>
    /\ reqs = [r \in Slots |-> Idle]
    /\ log = <<>>
    /\ now = 0
    /\ nextQid = 2
    /\ webinars = <<>>
    /\ registrations = <<>>

\* requests arrive one at a time; the clock advances between requests
WindowNext ==
    \/ (\A r \in Slots : reqs[r].pc = "idle") /\ Tick
    \/ SeqNext

WindowSpec == WindowInit /\ [][WindowNext]_vars

\* the quiz is open for attempts at time t
WithinWindow(quiz, t) ==
    /\ quiz.availableFrom <= t
    /\ quiz.availableUntil # Null => t <= quiz.availableUntil

\* C11: an attempt is created only for a quiz that is published, active and
\* within its availability window (availableFrom <= now, and now <=
\* availableUntil when set) at the time of the start call; any other start
\* call fails and creates nothing.
C11_StartOnlyWhenAvailable ==
    [][\A r \in Slots :
          (Completes(r, "start") /\ reqs[r].quizId \in DOMAIN quizzes)
          => LET quiz == quizzes[reqs[r].quizId]
             IN (quiz.isPublished /\ quiz.isActive /\ WithinWindow(quiz, now))
                \/ (~Succeeded(LastResponse') /\ attempts' = attempts)]_vars

-----------------------------------------------------------------------------
(* Further claims about the attempt lifecycle *)

\* the attempts of (quizId, userId) that are in progress
Open(quizId, userId) ==
    {i \in DOMAIN attempts :
        /\ attempts[i].quizId = quizId /\ attempts[i].userId = userId
        /\ attempts[i].status = "in-progress"}

\* C12: a submit answered while the (quiz, user) pair has an in-progress
\* attempt succeeds and completes it; a submit answered while it has none gets
\* 404 and changes nothing; and no step changes an attempt that is completed.
C12_CompletedIsTerminal ==
    [][/\ \A i \in DOMAIN attempts :
             attempts[i].status = "completed"
             => (i \in DOMAIN attempts' /\ attempts'[i] = attempts[i])
       /\ \A r \in Slots :
             Completes(r, "submit")
             => IF Open(reqs[r].quizId, reqs[r].userId) = {}
                THEN LastResponse'.status = 404 /\ attempts' = attempts
                ELSE /\ LastResponse'.status = 200
                     /\ \E i \in Open(reqs[r].quizId, reqs[r].userId) :
                           attempts'[i].status = "completed"]_vars

\* C12 witness: a submit was answered 404 for a pair whose attempt is completed
C12_Witness ==
    /\ log # <<>>
    /\ LastResponse.op = "submit" /\ LastResponse.status = 404
    /\ \E i \in DOMAIN attempts :
          /\ attempts[i].quizId = LastResponse.quizId
          /\ attempts[i].userId = LastResponse.userId
          /\ attempts[i].status = "completed"
          /\ attempts[i].answers # <<>>

-----------------------------------------------------------------------------
(* Further claims about scoring *)

\* C13: a completed attempt's stored isPassed is true exactly when its stored
\* percentage is at least the quiz's passingScore.
C13_PassedIffPercentageReached ==
    \A i \in Completed :
        attempts[i].isPassed
           <=> PctGeq(attempts[i].percentage, quizzes[attempts[i].quizId].passingScore)

\* the question ids named by a list of answers
QuestionIds(answers) == {answers[k].questionId : k \in DOMAIN answers}

\* C17: when a submit succeeds, the totalPoints stored on the attempt is the sum
\* of the point values of all the quiz's questions, answered or not, and the
\* stored answers are to questions the submission named.
C17_TotalPointsOfAllQuestions ==
    [][\A r \in Slots :
          (Completes(r, "submit") /\ LastResponse'.status = 200)
          => LET attempt == attempts'[LastResponse'.attemptId]
             IN /\ attempt.totalPoints = QuestionPoints(quizzes[reqs[r].quizId].questions)
                /\ QuestionIds(attempt.answers) \subseteq QuestionIds(reqs[r].answers)]_vars

-----------------------------------------------------------------------------
(* Editing a quiz that is being attempted: start, submit and updateQuiz *)

\* bodies of updateQuiz: fields that stay editable, fields that do not, both
EditBodies ==
    {[isActive |-> FALSE], [availableUntil |-> DateNull], [title |-> "P"],
     [maxAttempts |-> MaxMaxAttempts], [isPublished |-> FALSE],
     [isActive |-> FALSE, passingScore |-> 50]}

EditStep(r) ==
    \/ StartFindQuiz(r)
    \/ StartFindPrevious(r)
    \/ StartFindInProgress(r)
    \/ StartCreate(r)
    \/ SubmitFindAttempt(r)
    \/ SubmitFindQuiz(r)
    \/ SubmitSave(r)
    \/ UpdateFindQuiz(r)
    \/ UpdateCountAttempts(r)
    \/ UpdateWrite(r)

EditArrive(r) ==
    \/ \E q \in QuizIds, u \in Users : BeginStart(r, q, u)
    \/ \E q \in QuizIds, u \in Users :
          BeginSubmit(r, q, u, <<Answer(1, <<"A">>, Undefined)>>)
    \/ \E q \in QuizIds, updateData \in EditBodies : BeginUpdate(r, q, updateData)

\* requests arrive one at a time
EditNext == \E r \in Slots : (FirstFree(r) /\ Alone(r) /\ EditArrive(r)) \/ EditStep(r)

EditSpec == LifecycleInit /\ [][EditNext]_vars

\* the fields C14 leaves editable once attempts exist
EditableWithAttempts ==
    {"title", "description", "instructions", "tags", "availableUntil", "isActive"}

\* the number of attempts recorded for the quiz
Recorded(quizId) == Cardinality({i \in DOMAIN attempts : attempts[i].quizId = quizId})

\* C14: an update of a stored quiz with at least one recorded attempt leaves
\* every field outside {title, description, instructions, tags, availableUntil,
\* isActive} as it was, and if its patch names such a field it is answered 400,
\* the response names exactly those fields and the quiz is unchanged; an update
\* of a quiz without attempts is never refused for the fields it names, and when
\* it succeeds every field it names has the patch's value.
C14_RestrictedOnceAttempted ==
    [][\A r \in Slots :
          (Completes(r, "update") /\ reqs[r].quizId \in DOMAIN quizzes)
          => LET q == reqs[r].quizId
                 patch == reqs[r].body[1]
                 refused == DOMAIN patch \ EditableWithAttempts
             IN IF Recorded(q) > 0
                THEN /\ \A f \in DOMAIN quizzes[q] \ EditableWithAttempts :
                           quizzes'[q][f] = quizzes[q][f]
                     /\ refused # {}
                        => /\ LastResponse'.status = 400
                           /\ LastResponse'.data = refused
                           /\ quizzes' = quizzes
                ELSE /\ LastResponse'.data = {}
                     /\ LastResponse'.status = 200
                        => \A f \in DOMAIN patch \cap DOMAIN quizzes[q] :
                              quizzes'[q][f] = Cast(f, patch[f])]_vars

\* C14 witness: a patch of isActive and passingScore to a quiz with an attempt
\* was refused, naming passingScore, and the quiz is still active
C14_Witness ==
    /\ log # <<>>
    /\ LastResponse.op = "update" /\ LastResponse.status = 400
    /\ LastResponse.data = {"passingScore"}
    /\ LastResponse.quizId \in DOMAIN quizzes
    /\ Recorded(LastResponse.quizId) > 0
    /\ quizzes[LastResponse.quizId].isActive

-----------------------------------------------------------------------------
(* Claims about overlapping starts *)

\* start requests only, overlapping freely
RaceNext ==
    \E r \in Slots :
       \/ FirstFree(r) /\ \E q \in QuizIds, u \in Users : BeginStart(r, q, u)
       \/ StartFindQuiz(r)
       \/ StartFindPrevious(r)
       \/ StartFindInProgress(r)
       \/ StartCreate(r)

RaceSpec == LifecycleInit /\ [][RaceNext]_vars

\* the attempts of (quizId, userId) stored up to and including attempt i
UpTo(quizId, userId, i) ==
    {j \in DOMAIN attempts :
        /\ attempts[j].quizId = quizId /\ attempts[j].userId = userId
        /\ j <= i}

\* C15: two start requests of one (user, quiz) pair whose reads and creates
\* interleave both create an attempt (the witness: two in-progress attempts of
\* one pair, both numbered 1); and an attempt is created next to an in-progress
\* one of its pair only in that way: the in-progress one was stored after the
\* creating request had counted the pair's attempts.
C15_DuplicateByInterleavedStarts ==
    [][\A r \in Slots :
          (/\ reqs[r].op = "start" /\ reqs[r].pc = "create"
           /\ Len(attempts') = Len(attempts) + 1)
          => \A i \in Open(reqs[r].quizId, reqs[r].userId) :
                Cardinality(UpTo(reqs[r].quizId, reqs[r].userId, i))
                   > reqs[r].previousAttempts]_vars

\* C15 witness: two in-progress attempts of one pair, both with attemptNumber 1
C15_Witness ==
    \E q \in QuizIds, u \in Users :
       \E i, j \in Open(q, u) :
          /\ i # j
          /\ attempts[i].attemptNumber = 1 /\ attempts[j].attemptNumber = 1

-----------------------------------------------------------------------------
(* Claims about attempt numbers *)

\* C16: every attempt is created with attemptNumber equal to the number of
\* attempts already stored for its (user, quiz) pair plus one, and that number
\* is at most the quiz's maxAttempts.
C16_AttemptNumbering ==
    [][Len(attempts') = Len(attempts) + 1
       => LET attempt == attempts'[Len(attempts')]
              previous == {i \in DOMAIN attempts :
                             /\ attempts[i].quizId = attempt.quizId
                             /\ attempts[i].userId = attempt.userId}
          IN /\ attempt.attemptNumber = Cardinality(previous) + 1
             /\ attempt.quizId \in DOMAIN quizzes
             /\ attempt.attemptNumber <= quizzes[attempt.quizId].maxAttempts]_vars

\* C16 witness: after a completed first attempt a second one, numbered 2, is
\* in progress
C16_Witness ==
    \E i, j \in DOMAIN attempts :
       /\ attempts[i].quizId = attempts[j].quizId
       /\ attempts[i].userId = attempts[j].userId
       /\ attempts[i].attemptNumber = 1 /\ attempts[i].status = "completed"
       /\ attempts[j].attemptNumber = 2 /\ attempts[j].status = "in-progress"

-----------------------------------------------------------------------------
(* Further claims about the catalog *)

\* the question is well-formed for its type: a choice question has at least 2
\* options and a correct answer (a correctAnswer value or an option marked
\* correct), a short-answer question has a non-empty correct answer
WellFormed(q) ==
    /\ IsChoice(q.type)
       => Len(q.options) >= 2 /\ (Truthy(q.correctAnswer) \/ ~NoneMarkedCorrect(q))
    /\ q.type = "short-answer" => ~EmptyCorrectAnswer(q)

\* C18: every question of every published quiz is well-formed for its type.
C18_PublishedIsWellFormed ==
    \A q \in DOMAIN quizzes :
        quizzes[q].isPublished
        => \A i \in DOMAIN quizzes[q].questions : WellFormed(quizzes[q].questions[i])

-----------------------------------------------------------------------------
(* The question limit: a quiz one question short of the limit, requests overlap *)

\* n stored questions; their _ids were handed out before the run
StoredQuestions(n) == [i \in 1..n |-> [ShortAnswer EXCEPT !.id = MaxQid + i]]

LimitInit ==
    /\ quizzes = [q \in QuizIds |->
                     QuizPreSave(Quiz(1, TRUE, FALSE, 0, MaxTime, 1, 70,
                                      StoredQuestions(QuestionLimit - 1)))]
    /\ attempts = <<>>
    /\ reqs = [r \in Slots |-> Idle]
    /\ log = <<>>
    /\ now = 0
    /\ nextQid = 0
    /\ webinars = <<>>
    /\ registrations = <<>>

\* a createQuiz body with one question more than the limit
OverLimitBody ==
    [courseId |-> 1, availableFrom |-> 0, availableUntil |-> MaxTime,
     maxAttempts |-> 0, passingScore |-> 0,
     questions |-> StoredQuestions(QuestionLimit + 1)]

LimitArrive(r) ==
    \/ BeginCreate(r, OverLimitBody)
    \/ \E q \in QuizIds :
          \E questions \in {<<ShortAnswer>>, StoredQuestions(QuestionLimit + 1)} :
             BeginUpdate(r, q, [questions |-> questions])
    \/ \E q \in QuizIds : BeginAddQuestion(r, q, ShortAnswer)

\* requests overlap freely
LimitNext ==
    \E r \in Slots :
       \/ FirstFree(r) /\ LimitArrive(r)
       \/ CreateFindCourse(r)
       \/ UpdateFindQuiz(r)
       \/ UpdateWrite(r)
       \/ AddFindQuiz(r)
       \/ AddSave(r)

LimitSpec == LimitInit /\ [][LimitNext]_vars

\* C19: every stored quiz has at most 30 questions.
C19_AtMostThirtyQuestions ==
    \A q \in DOMAIN quizzes : Len(quizzes[q].questions) <= 30

-----------------------------------------------------------------------------
(* The dates of a quiz: createQuiz and updateQuiz, one request at a time *)

\* bodies of createQuiz without questions, the dates as the body gives them
DateCreateBodies ==
    [courseId : CourseIds, availableFrom : 0 .. 1,
     availableUntil : {Null} \cup (0 .. MaxTime), maxAttempts : {0},
     passingScore : {0}, questions : {<<>>}]

\* bodies of updateQuiz that touch availableFrom, availableUntil or both, each
\* with null, the number 0 or a date string
DatePatches ==
    LET values == {DateNull, DateNumber(0)} \cup {DateString(t) : t \in 0 .. MaxTime}
    IN UNION {[fields -> values] :
                 fields \in (SUBSET {"availableFrom", "availableUntil"}) \ {{}}}

DateArrive(r) ==
    \/ \E body \in DateCreateBodies : BeginCreate(r, body)
    \/ \E q \in QuizIds, updateData \in DatePatches : BeginUpdate(r, q, updateData)

\* the requests arrive one at a time
DateNext ==
    \E r \in Slots :
       \/ FirstFree(r) /\ Alone(r) /\ DateArrive(r)
       \/ CreateFindCourse(r)
       \/ CreateSave(r)
       \/ UpdateFindQuiz(r)
       \/ UpdateWrite(r)

DateSpec == CatalogInit /\ [][DateNext]_vars

\* C20: every stored quiz whose availableUntil is set has availableUntil
\* strictly later than availableFrom.
C20_UntilAfterFrom ==
    \A q \in DOMAIN quizzes :
       quizzes[q].availableUntil # Null
       => quizzes[q].availableUntil > quizzes[q].availableFrom

-----------------------------------------------------------------------------
(* Listing with filters *)

\* C21: every quiz that getQuizzes returns satisfies each filter the query
\* supplies (isActive, isPublished), and when the query supplies status=S the
\* status returned with the quiz is S.
C21_FiltersCombineWithAnd ==
    [][\A r \in Slots :
          Completes(r, "getQuizzes")
          => LET query == reqs[r].body[1]
             IN \A item \in LastResponse'.data :
                   /\ query.isActive # "undefined"
                      => item.quiz.isActive = (query.isActive = "true")
                   /\ query.isPublished # "undefined"
                      => item.quiz.isPublished = (query.isPublished = "true")
                   /\ query.status # "" => item.status = query.status]_vars

-----------------------------------------------------------------------------
(* Adding questions to a quiz that is being attempted, one request at a time *)

\* a quiz one question short of the limit, draft or published
AddInit ==
    /\ quizzes \in {[q \in QuizIds |->
                       QuizPreSave(Quiz(1, TRUE, published, 0, MaxTime, MaxMaxAttempts,
                                        70, StoredQuestions(QuestionLimit - 1)))] :
                    published \in BOOLEAN}
    /\ attempts = <<>>
    /\ reqs = [r \in Slots |-> Idle]
    /\ log = <<>>
    /\ now = 0
    /\ nextQid = 0
    /\ webinars = <<>>
    /\ registrations = <<>>

\* bodies of addQuestion: three complete questions and a blank one
AddBodies == {ShortAnswer, TrueFalse, WellFormedChoice, BlankShortAnswer}

AddArrive(r) ==
    \/ \E q \in QuizIds, u \in Users : BeginStart(r, q, u)
    \/ \E q \in QuizIds, questionData \in AddBodies : BeginAddQuestion(r, q, questionData)

AddNext ==
    \E r \in Slots :
       \/ FirstFree(r) /\ Alone(r) /\ AddArrive(r)
       \/ StartFindQuiz(r)
       \/ StartFindPrevious(r)
       \/ StartFindInProgress(r)
       \/ StartCreate(r)
       \/ AddFindQuiz(r)
       \/ AddCountAttempts(r)
       \/ AddSave(r)

AddSpec == AddInit /\ [][AddNext]_vars

\* the question data a client sends for a complete question
CompleteQuestions == {ShortAnswer, TrueFalse, WellFormedChoice}

-----------------------------------------------------------------------------
(* Every operation on quizzes and attempts, one request at a time *)

\* a short-answer question whose correctAnswer is the boolean true
BooleanShortAnswer == Question(0, "short-answer", <<>>, Bool(TRUE), 1)

\* a draft quiz with a choice question and a true-false question
ErrorInit ==
    /\ quizzes = [q \in QuizIds |->
                     QuizPreSave(Quiz(1, TRUE, FALSE, 0, MaxTime, 1, 70,
                        << [WellFormedChoice EXCEPT !.id = MaxQid + 1],
                           [TrueFalse EXCEPT !.id = MaxQid + 2] >>))]
    /\ attempts = <<>>
    /\ reqs = [r \in Slots |-> Idle]
    /\ log = <<>>
    /\ now = 0
    /\ nextQid = 0
    /\ webinars = <<>>
    /\ registrations = <<>>

\* request bodies that pass and request bodies that each handler refuses
ErrorArrive(r) ==
    \/ \E body \in [courseId : CourseIds \cup {2}, availableFrom : {0},
                    availableUntil : {Null, MaxTime}, maxAttempts : {0},
                    passingScore : {0}, questions : {<<>>}] : BeginCreate(r, body)
    \/ \E q \in QuizIds,
          updateData \in {[isPublished |-> FALSE], [maxAttempts |-> 0],
                          [availableUntil |-> DateString(0)],
                          [questions |-> <<BooleanShortAnswer>>]} :
          BeginUpdate(r, q, updateData)
    \/ \E q \in QuizIds : BeginPublish(r, q)
    \/ \E q \in QuizIds,
          questionData \in {ShortAnswer, BlankShortAnswer,
                            [WellFormedChoice EXCEPT !.points = 0]} :
          BeginAddQuestion(r, q, questionData)
    \/ \E q \in QuizIds : BeginDelete(r, q)
    \/ \E q \in QuizIds, u \in Users : BeginStart(r, q, u)
    \/ \E q \in QuizIds, u \in Users,
          answers \in {<<Answer(MaxQid + 1, <<"A">>, Undefined)>>,
                       <<Answer(MaxQid + 2, <<>>, Str(<<"P">>))>>} :
          BeginSubmit(r, q, u, answers)

ErrorNext ==
    \E r \in Slots :
       \/ FirstFree(r) /\ Alone(r) /\ ErrorArrive(r)
       \/ Step(r)
       \/ CatalogStep(r)

ErrorSpec == ErrorInit /\ [][ErrorNext]_vars

\* C23: the step in which a request answers 400, 403, 404 or 500 leaves the
\* stored quizzes and attempts as they are; every step that changes them
\* either answers with success in that step or is the save of publishQuiz,
\* whose one remaining step answers with success. With requests running one at
\* a time, a call that returns an error has therefore written nothing.
C23_ErrorsLeaveStoreUntouched ==
    [][/\ \A r \in Slots :
             (reqs[r].pc # "idle" /\ reqs'[r].pc = "idle"
              /\ LastResponse'.status \in {400, 403, 404, 500})
             => quizzes' = quizzes /\ attempts' = attempts
       /\ (quizzes' # quizzes \/ attempts' # attempts)
          => \E r \in Slots :
                /\ reqs[r].pc # "idle"
                /\ \/ reqs'[r].pc = "idle" /\ Succeeded(LastResponse')
                   \/ reqs[r].op = "publish" /\ reqs'[r].pc = "refetch"
       /\ \A r \in Slots :
             (reqs[r].pc = "refetch" /\ reqs'[r].pc = "idle")
             => Succeeded(LastResponse')]_vars

\* C23 witness: a submission was answered 500 and the attempt it was for is
\* still in progress without answers.
C23_Witness ==
    /\ log # <<>>
    /\ LastResponse.op = "submit" /\ LastResponse.status = 500
    /\ \E i \in DOMAIN attempts :
          attempts[i].status = "in-progress" /\ attempts[i].answers = <<>>

-----------------------------------------------------------------------------
(* getQuizAnalytics *)

BeginAnalytics(r, quizId) ==
    /\ reqs[r].pc = "idle"
    /\ reqs' = [reqs EXCEPT ![r] =
           [Idle EXCEPT !.op = "analytics", !.pc = "findQuiz", !.quizId = quizId]]
    /\ UNCHANGED <<quizzes, attempts, log, now, nextQid, webinars, registrations>>

\* const quiz = await Quiz.findById(id).lean()
AnalyticsFindQuiz(r) ==
    /\ reqs[r].op = "analytics" /\ reqs[r].pc = "findQuiz"
    /\ IF reqs[r].quizId \notin DOMAIN quizzes
       THEN Respond(r, 404, 0)
       ELSE /\ reqs' = [reqs EXCEPT ![r].pc = "findAttempts",
                                    ![r].quiz = <<quizzes[reqs[r].quizId]>>]
            /\ UNCHANGED log
    /\ UNCHANGED <<quizzes, attempts, now, nextQid, webinars, registrations>>

\* parseFloat((n / d * 100).toFixed(2)), in hundredths of a percent
ToFixed2(n, d) == MathRound(n * 10000, d)

\* attempt.answers.some(ans => ans.questionIndex === index): the field is read
\* from the stored answer, which has it only if the schema and the handler
\* that stored it gave it one
AnswersIndex(attempt, index) ==
    {j \in DOMAIN attempt.answers :
        /\ "questionIndex" \in DOMAIN attempt.answers[j]
        /\ attempt.answers[j].questionIndex = index}

\* one element of questionStats, for the question at the 0-based index
QuestionStat(found, index) ==
    LET questionAttempts == {a \in found : AnswersIndex(a.doc, index) # {}}
        first(a) == a.doc.answers[CHOOSE j \in AnswersIndex(a.doc, index) :
                                     \A k \in AnswersIndex(a.doc, index) : j <= k]
        correctAttempts == Cardinality({a \in questionAttempts : first(a).isCorrect})
    IN [questionIndex |-> index,
        totalAttempts |-> Cardinality(questionAttempts),
        correctAttempts |-> correctAttempts,
        accuracy |-> IF questionAttempts # {}
                     THEN ToFixed2(correctAttempts, Cardinality(questionAttempts))
                     ELSE 0]

\* the analytics object computed from the quiz and its attempts (documents
\* with their _id)
Analytics(quiz, found) ==
    LET completedAttempts == Cardinality({a \in found : a.doc.status = "completed"})
        \* a.score !== undefined && a.score >= quiz.passingScore
        passingAttempts == Cardinality({a \in found : a.doc.score >= quiz.passingScore})
    IN [completedAttempts |-> completedAttempts,
        passingAttempts |-> passingAttempts,
        passingRate |-> IF completedAttempts > 0
                        THEN ToFixed2(passingAttempts, completedAttempts)
                        ELSE 0,
        failingAttempts |-> completedAttempts - passingAttempts,
        questionStats |-> IF found # {}
                          THEN [i \in DOMAIN quiz.questions |-> QuestionStat(found, i - 1)]
                          ELSE <<>>]

\* const attempts = await QuizAttempt.find({quizId: id}); the analytics are
\* computed and returned
AnalyticsFindAttempts(r) ==
    /\ reqs[r].op = "analytics" /\ reqs[r].pc = "findAttempts"
    /\ LET found == {[id |-> i, doc |-> attempts[i]] :
                        i \in {j \in DOMAIN attempts : attempts[j].quizId = reqs[r].quizId}}
       IN RespondData(r, 200, 0, Analytics(reqs[r].quiz[1], found))
    /\ UNCHANGED <<quizzes, attempts, now, nextQid, webinars, registrations>>

\* patches of the passing score, made before the quiz is attempted
AnalyticsPatches == {[passingScore |-> 0], [passingScore |-> 1]}

AnalyticsArrive(r) ==
    \/ \E q \in QuizIds, u \in Users : BeginStart(r, q, u)
    \/ \E q \in QuizIds, u \in Users, answers \in LifecycleAnswers :
          BeginSubmit(r, q, u, answers)
    \/ \E q \in QuizIds, updateData \in AnalyticsPatches : BeginUpdate(r, q, updateData)
    \/ \E q \in QuizIds : BeginAnalytics(r, q)

\* start, submit, updateQuiz and getQuizAnalytics, one request at a time
AnalyticsNext ==
    \E r \in Slots :
       \/ FirstFree(r) /\ Alone(r) /\ AnalyticsArrive(r)
       \/ EditStep(r)
       \/ AnalyticsFindQuiz(r)
       \/ AnalyticsFindAttempts(r)

AnalyticsSpec == LifecycleInit /\ [][AnalyticsNext]_vars

\* the stored attempts of a quiz that are completed
CompletedOf(quizId) ==
    {i \in DOMAIN attempts :
        attempts[i].quizId = quizId /\ attempts[i].status = "completed"}

\* C24: the analytics returned for a quiz report as passingAttempts the number
\* of its completed attempts that passed, as passingRate that number divided by
\* the number of completed attempts, times 100 (0 without completed attempts);
\* passingAttempts is at most completedAttempts, the rate lies in 0..100 and
\* failingAttempts is not negative.
C24_PassRate ==
    [][\A r \in Slots :
          (Completes(r, "analytics") /\ LastResponse'.status = 200)
          => LET a == LastResponse'.data
                 done == CompletedOf(reqs[r].quizId)
                 passed == {i \in done : attempts[i].isPassed}
             IN /\ a.completedAttempts = Cardinality(done)
                /\ a.passingAttempts = Cardinality(passed)
                /\ a.passingRate = IF done = {} THEN 0
                                   ELSE ToFixed2(Cardinality(passed), Cardinality(done))
                /\ a.passingAttempts <= a.completedAttempts
                /\ a.passingRate >= 0 /\ a.passingRate <= 100 * 100
                /\ a.failingAttempts >= 0]_vars

\* the stored attempts of a quiz with an answer to the question
AnsweredBy(quizId, questionId) ==
    {i \in DOMAIN attempts :
        /\ attempts[i].quizId = quizId
        /\ \E j \in DOMAIN attempts[i].answers :
              attempts[i].answers[j].questionId = questionId}

\* C25: for each question of the quiz, the analytics report as totalAttempts
\* the number of stored attempts with an answer to that question, and as
\* accuracy the share of them whose answer to it is correct, times 100.
C25_QuestionAccuracy ==
    [][\A r \in Slots :
          (Completes(r, "analytics") /\ LastResponse'.status = 200
           /\ AttemptCount(reqs[r].quizId) > 0)
          => LET q == reqs[r].quizId
                 stats == LastResponse'.data.questionStats
             IN \A k \in DOMAIN quizzes[q].questions :
                   LET id == quizzes[q].questions[k].id
                       answered == AnsweredBy(q, id)
                       correct == {i \in answered :
                                      \E j \in DOMAIN attempts[i].answers :
                                         /\ attempts[i].answers[j].questionId = id
                                         /\ attempts[i].answers[j].isCorrect}
                   IN /\ stats[k].totalAttempts = Cardinality(answered)
                      /\ answered # {}
                         => stats[k].accuracy
                               = ToFixed2(Cardinality(correct), Cardinality(answered))]_vars

-----------------------------------------------------------------------------
(* Repeated answers *)

\* C26: on every completed attempt the score is at most the sum of the point
\* values of the quiz's questions, the percentage is at most 100, and the
\* points earned by the stored answers to one question are together at most
\* that question's points.
C26_ScoreWithinTotal ==
    \A i \in Completed :
       LET attempt == attempts[i]
           questions == quizzes[attempt.quizId].questions
       IN /\ attempt.score <= QuestionPoints(questions)
          /\ attempt.percentage.num <= 100 * attempt.percentage.den
          /\ \A k \in DOMAIN questions :
                SumSeq([j \in DOMAIN attempt.answers |->
                           IF attempt.answers[j].questionId = questions[k].id
                           THEN attempt.answers[j].pointsEarned ELSE 0])
                   <= questions[k].points

-----------------------------------------------------------------------------
(* Overlapping submissions of one attempt *)

\* a published quiz of two questions on which user 1 has started attempt #1
SubmitRaceInit ==
    /\ quizzes = [q \in QuizIds |->
                     QuizPreSave(Quiz(1, TRUE, TRUE, 0, MaxTime, 1, 70,
                                      TwoChoiceQuestions))]
    /\ attempts = <<NewAttempt(1, 1, 1)>>
    /\ reqs = [r \in Slots |-> Idle]
    /\ log = <<>>
    /\ now = 0
    /\ nextQid = 2
    /\ webinars = <<>>
    /\ registrations = <<>>

\* req.body.answers: none, a right one or a wrong one to the first question
SubmitRaceAnswers ==
    {<<>>, <<Answer(1, <<"A">>, Undefined)>>, <<Answer(1, <<"B">>, Undefined)>>}

\* submissions overlap freely
SubmitRaceNext ==
    \E r \in Slots :
       \/ /\ FirstFree(r)
          /\ \E q \in QuizIds, u \in Users, answers \in SubmitRaceAnswers :
                BeginSubmit(r, q, u, answers)
       \/ SubmitFindAttempt(r)
       \/ SubmitFindQuiz(r)
       \/ SubmitSave(r)

SubmitRaceSpec == SubmitRaceInit /\ [][SubmitRaceNext]_vars

\* C27: once an attempt is stored as completed, no step of another
\* submission changes its answers, score, percentage or isPassed.
C27_OneSubmitScores ==
    [][\A i \in DOMAIN attempts :
          attempts[i].status = "completed"
          => /\ attempts'[i].answers = attempts[i].answers
             /\ attempts'[i].score = attempts[i].score
             /\ attempts'[i].percentage = attempts[i].percentage
             /\ attempts'[i].isPassed = attempts[i].isPassed]_vars

-----------------------------------------------------------------------------
(* Attempt numbers under overlapping starts *)

\* C28: the attempts of one (user, quiz) pair carry pairwise distinct
\* attemptNumber values, which are exactly 1..n for its n attempts.
C28_AttemptNumbersFormRange ==
    \A q \in QuizIds, u \in Users :
       LET mine == AttemptsOf(q, u)
       IN /\ \A i, j \in mine :
                i # j => attempts[i].attemptNumber # attempts[j].attemptNumber
          /\ {attempts[i].attemptNumber : i \in mine} = 1 .. Cardinality(mine)

-----------------------------------------------------------------------------
(* Deleting a quiz while it is being started *)

\* C29: every stored attempt references a stored quiz.
C29_AttemptsReferenceQuiz ==
    \A i \in DOMAIN attempts : attempts[i].quizId \in DOMAIN quizzes

-----------------------------------------------------------------------------
(* Webinar registrations: registerForWebinar and cancelRegistration *)

\* the largest maxParticipants of a webinar
MaxSeats == 2

WebinarIds == {1}

\* req.body.email: one address in two spellings, and another address
Emails == {<<"P">>, <<"p">>, <<"p", "p">>}

\* a Webinar document: no participants yet (the schema's default)
Webinar(status, startTime, endTime, maxParticipants) ==
    [status |-> status, startTime |-> startTime, endTime |-> endTime,
     maxParticipants |-> maxParticipants, currentParticipants |-> 0]

\* a Registration document as Registration.create stores it: user.email passes
\* the schema's lowercase and trim setters, status takes its default
Registration(webinarId, email) ==
    [webinar |-> webinarId, email |-> trim(toLowerCase(email)),
     status |-> "registered"]

\* one webinar that starts at 1 and ends at 2, a draft or published, with no
\* registrations
WebinarInit ==
    /\ quizzes = <<>>
    /\ attempts = <<>>
    /\ reqs = [r \in Slots |-> Idle]
    /\ log = <<>>
    /\ now = 0
    /\ nextQid = 0
    /\ \E status \in {"draft", "published"}, seats \in 1..MaxSeats :
          webinars = [w \in WebinarIds |-> Webinar(status, 1, 2, seats)]
    /\ registrations = <<>>

\* POST /:webinarId/register
BeginRegister(r, webinarId, registrationData) ==
    /\ reqs[r].pc = "idle"
    /\ reqs' = [reqs EXCEPT ![r] =
           [Idle EXCEPT !.op = "register", !.pc = "findWebinar",
                        !.webinarId = webinarId, !.body = <<registrationData>>]]
    /\ UNCHANGED <<quizzes, attempts, log, now, nextQid, webinars, registrations>>

\* Webinar.findById, then the checks of the status and of the clock
RegisterFindWebinar(r) ==
    /\ reqs[r].op = "register" /\ reqs[r].pc = "findWebinar"
    /\ IF reqs[r].webinarId \notin DOMAIN webinars
       THEN Respond(r, 404, 0)
       ELSE LET webinar == webinars[reqs[r].webinarId]
            IN IF \/ webinar.status \in {"draft", "cancelled"}
                  \/ now > webinar.endTime
                  \/ now > webinar.startTime
               THEN Respond(r, 400, 0)
               ELSE /\ reqs' = [reqs EXCEPT ![r].pc = "findExisting",
                                            ![r].webinar = <<webinar>>]
                    /\ UNCHANGED log
    /\ UNCHANGED <<quizzes, attempts, now, nextQid, webinars, registrations>>

\* the registrations of a webinar under an address, whatever their status
ExistingRegistrations(webinarId, email) ==
    {i \in DOMAIN registrations :
        /\ registrations[i].webinar = webinarId
        /\ registrations[i].email = email}

\* Registration.findOne, then the seats check on the webinar read earlier
RegisterFindExisting(r) ==
    /\ reqs[r].op = "register" /\ reqs[r].pc = "findExisting"
    /\ LET webinar == reqs[r].webinar[1]
           email == toLowerCase(reqs[r].body[1].email)
       IN IF \/ ExistingRegistrations(reqs[r].webinarId, email) # {}
             \/ webinar.currentParticipants >= webinar.maxParticipants
          THEN Respond(r, 400, 0)
          ELSE /\ reqs' = [reqs EXCEPT ![r].pc = "create"]
               /\ UNCHANGED log
    /\ UNCHANGED <<quizzes, attempts, now, nextQid, webinars, registrations>>

\* Registration.create, then `webinar.currentParticipants += 1` on the
\* handler's own copy
RegisterCreate(r) ==
    /\ reqs[r].op = "register" /\ reqs[r].pc = "create"
    /\ registrations' =
          Append(registrations,
                 Registration(reqs[r].webinarId, reqs[r].body[1].email))
    /\ reqs' = [reqs EXCEPT ![r].pc = "saveWebinar",
                            ![r].registration = <<Len(registrations) + 1>>,
                            ![r].webinar[1].currentParticipants = @ + 1]
    /\ UNCHANGED <<quizzes, attempts, log, now, nextQid, webinars>>

\* webinar.save(): the modified path currentParticipants is set to the value of
\* the handler's copy
RegisterSaveWebinar(r) ==
    /\ reqs[r].op = "register" /\ reqs[r].pc = "saveWebinar"
    /\ webinars' = [webinars EXCEPT ![reqs[r].webinarId].currentParticipants =
                       reqs[r].webinar[1].currentParticipants]
    /\ Respond(r, 201, 0)
    /\ UNCHANGED <<quizzes, attempts, now, nextQid, registrations>>

\* cancelRegistration(req, res) with req.params.registrationId
BeginCancel(r, registrationId) ==
    /\ reqs[r].pc = "idle"
    /\ reqs' = [reqs EXCEPT ![r] =
           [Idle EXCEPT !.op = "cancel", !.pc = "findRegistration",
                        !.registration = <<registrationId>>]]
    /\ UNCHANGED <<quizzes, attempts, log, now, nextQid, webinars, registrations>>

\* Registration.findById
CancelFindRegistration(r) ==
    /\ reqs[r].op = "cancel" /\ reqs[r].pc = "findRegistration"
    /\ IF reqs[r].registration[1] \notin DOMAIN registrations
       THEN Respond(r, 404, 0)
       ELSE /\ reqs' = [reqs EXCEPT ![r].pc = "saveRegistration"]
            /\ UNCHANGED log
    /\ UNCHANGED <<quizzes, attempts, now, nextQid, webinars, registrations>>

\* registration.save() with status 'cancelled'; the next statement reads
\* `Webinar`, a name the controller's module never declares, so it throws a
\* ReferenceError and the catch block answers 500 before any webinar is touched
CancelSave(r) ==
    /\ reqs[r].op = "cancel" /\ reqs[r].pc = "saveRegistration"
    /\ registrations' =
          [registrations EXCEPT ![reqs[r].registration[1]].status = "cancelled"]
    /\ Respond(r, 500, 0)
    /\ UNCHANGED <<quizzes, attempts, now, nextQid, webinars>>

\* registrations and cancellations overlap freely while the clock runs
WebinarNext ==
    \/ \E r \in Slots :
          \/ /\ FirstFree(r)
             /\ \/ \E w \in WebinarIds, email \in Emails :
                      BeginRegister(r, w, [email |-> email])
                \/ \E id \in 1..(Len(registrations) + 1) : BeginCancel(r, id)
          \/ RegisterFindWebinar(r)
          \/ RegisterFindExisting(r)
          \/ RegisterCreate(r)
          \/ RegisterSaveWebinar(r)
          \/ CancelFindRegistration(r)
          \/ CancelSave(r)
    \/ Tick

WebinarSpec == WebinarInit /\ [][WebinarNext]_vars

\* the registrations of a webinar that are not cancelled
ActiveRegistrations(webinarId) ==
    {i \in DOMAIN registrations :
        /\ registrations[i].webinar = webinarId
        /\ registrations[i].status # "cancelled"}

\* C30: whenever no registration or cancellation is in progress, a webinar's
\* currentParticipants is at most its maxParticipants and equals the number of
\* its registrations that are not cancelled
C30_ParticipantsMatchRegistrations ==
    (\A r \in Slots : reqs[r].pc = "idle") =>
       \A w \in DOMAIN webinars :
          /\ webinars[w].currentParticipants <= webinars[w].maxParticipants
          /\ webinars[w].currentParticipants = Cardinality(ActiveRegistrations(w))

=============================================================================
